---- MODULE Spec2Model ----
(***************************************************************************)
(* Model of instance-stack-curator: the startup / shutdown sequencers      *)
(* (cmd/startup.go, cmd/shutdown.go), the ASG capacity controller          *)
(* (PrepareInstanceGroupForShutdown / PrepareInstanceGroupForStartup) and  *)
(* the two lifecycle waiters of internal/curator/curator.go.               *)
(*                                                                         *)
(* Durations are counted in units of 15 seconds.                           *)
(***************************************************************************)
EXTENDS Integers, Sequences, FiniteSets, TLC

(* ------------------------------ bounds --------------------------------- *)
\* number of groups declared in the stack (len(stack.Groups))
NGroups == 2
\* number of EC2 instances known to the cloud
NInst == 2
\* longest latency of one DescribeAutoScalingInstances probe, in 15 s units
MaxLatency == 2
\* largest maxWaitDur handed to a waiter that is called directly
MaxWaitArg == 6
\* largest MinDelay / MaxDelay option handed to such a waiter
MaxDelayArg == 3
\* most instances in the output handed to a Retryable function called on its own
MaxLen == 3
\* largest MinSize / MaxSize of an Auto Scaling group at the start of a run
MaxSize == 2
\* most unused elements of capacity behind the filters of the decoded stack
MaxSpare == 2

(* ------------------------- program constants --------------------------- *)
LifecycleStateNameInService == "InService"
LifecycleStateNameStandby == "Standby"
\* 10 * time.Minute
DefaultWaitDuration == 40
\* options.MinDelay = 15 * time.Second
DefaultMinDelay == 1
\* options.MaxDelay = 120 * time.Second
DefaultMaxDelay == 8
\* o.MaxDelay = time.Minute
PrepareMaxDelay == 4

Groups == 0 .. (NGroups - 1)
Instances == 1 .. NInst
NoAsg == 0
Nil == "nil"

VARIABLES
  \* ---- command line and sequencer (RunE) ----
  command,        \* "startup" or "shutdown"
  dryRun,         \* --dry-run
  i,              \* loop variable of "for i := range stack.Groups"
  pc,             \* position in RunE / PrepareInstanceGroupFor*
  group,          \* the loop's copy of stack.Groups[..]: [Name, Instances]
  instanceIds,    \* getGroupInstanceIds(&group)
  err,            \* error returned by RunE ("nil" when none)
  exitCode,       \* process exit status set by Execute (-1 while running)
  reports,        \* progress lines printed with pp.Printf
  calls,          \* remote calls issued so far, with their outcome
  stackFile,      \* the document --stack names: [Error, Stack, Spare]
  stack,          \* the package variable stack that initStack fills
  filters,        \* the filters of the last DescribeInstances input
  \* ---- the cloud ----
  groupOf,        \* instance -> stack group whose filters select it
  asgOf,          \* instance -> owning Auto Scaling group (NoAsg: none)
  ec2State,       \* instance -> EC2 state name
  lifecycle,      \* instance -> ASG lifecycle state
  asgMinSize,     \* ASG -> MinSize
  asgMaxSize,     \* ASG -> MaxSize
  \* ---- locals of PrepareInstanceGroupForShutdown / ...ForStartup ----
  autoscalingInstances,             \* map ASG name -> eligible instance ids
  describeAutoScalingGroupsOutput,  \* AutoScalingGroups of the describe call
  gidx,                             \* position of the range loop over them
  waitForInstanceIds,
  prepErr,                          \* value returned by Prepare* ("-" before)
  \* ---- locals of WaitForOutput ----
  wkind,          \* which waiter runs: "none", "Standby", "InService"
  wpc,            \* "idle", "call", "probe", "sleep", "done"
  maxWaitDur,
  options,        \* [MinDelay, MaxDelay, Retryable]
  remainingTime,
  attempt,
  params,         \* InstanceIds of the describe input
  wout,           \* [out, err] returned by WaitForOutput
  probes,         \* DescribeAutoScalingInstances calls made by this wait
  sleeps,         \* SleepWithContext calls made by this wait
  probeErr,       \* err of the describe call of the current turn of the loop
  retryable,      \* what options.Retryable returned in the current turn
  ctxCancelled,   \* the caller's context has been cancelled
  \* ---- a Retryable function called on its own ----
  predKind,       \* "none", "Standby", "InService"
  predOutput,     \* AutoScalingInstances[].LifecycleState of the output
  predErr,        \* the err argument
  predResult,     \* NotCalled before the call, then [retryable, err]
  \* ---- history ----
  minSizeAtStart, \* ASG -> MinSize when the run began
  twin            \* two waits run side by side: the one that is not at turn

seqVars == <<command, dryRun, i, pc, group, instanceIds, err, exitCode, reports, calls>>
topoVars == <<stackFile, groupOf, asgOf>>
stackVars == <<stack, filters>>
histVars == <<minSizeAtStart, twin>>
cloudVars == <<ec2State, lifecycle, asgMinSize, asgMaxSize>>
prepVars == <<autoscalingInstances, describeAutoScalingGroupsOutput, gidx, waitForInstanceIds, prepErr>>
waitIn == <<wkind, maxWaitDur, options, params>>
waitLoc == <<wpc, remainingTime, attempt, wout, probes, sleeps, probeErr, retryable>>
predVars == <<predKind, predOutput, predErr, predResult>>
vars == <<seqVars, topoVars, stackVars, histVars, cloudVars, prepVars, waitIn, waitLoc,
          ctxCancelled, predVars>>

(* ------------------------------ helpers -------------------------------- *)
RECURSIVE SeqOf(_)
\* the elements of a finite set of integers, ascending
SeqOf(S) ==
  IF S = {} THEN <<>>
  ELSE LET m == CHOOSE x \in S : \A y \in S : x <= y
       IN <<m>> \o SeqOf(S \ {m})

Range(s) == {s[k] : k \in 1 .. Len(s)}

\* one entry of the call log
Call(op, g, asg, ids, val, ok) ==
  [op |-> op, g |-> g, asg |-> asg, ids |-> ids, val |-> val, ok |-> ok]

Report(msg, g) == [msg |-> msg, g |-> g]

MutatingOps == {"StartInstances", "StopInstances", "EnterStandby", "ExitStandby",
                "UpdateAutoScalingGroup.MinSize", "UpdateAutoScalingGroup.MaxSize"}

(* ------------------------------ the cloud ------------------------------ *)
\* instances the Auto Scaling service reports for a describe of ids: the
\* ASG-managed, not terminated ones
Described(ids) ==
  SelectSeq(ids, LAMBDA k : asgOf[k] # NoAsg /\ ec2State[k] # "terminated")

\* AutoScalingInstances[].LifecycleState of a describe of ids, read in the
\* cloud state lc
LifecycleStates(ids, lc) ==
  LET d == Described(ids) IN [n \in 1 .. Len(d) |-> lc[d[n]]]

\* instances whose standby transition is under way
Transitioning(ids) ==
  {k \in Range(ids) : lifecycle[k] \in {"EnteringStandby", "Pending"}}

\* the cloud completes the transition of the instances in adv
Advance(adv) ==
  [k \in Instances |->
     IF k \in adv
     THEN (IF lifecycle[k] = "EnteringStandby" THEN LifecycleStateNameStandby
           ELSE LifecycleStateNameInService)
     ELSE lifecycle[k]]

\* latencies time.Since(start) can measure for one probe (always positive)
Latencies == 1 .. MaxLatency

(* --------------------------- smithy ComputeDelay ----------------------- *)
RECURSIVE FloorLog2(_)
FloorLog2(n) == IF n <= 1 THEN 0 ELSE 1 + FloorLog2(n \div 2)

RECURSIVE Pow2(_)
Pow2(n) == IF n <= 0 THEN 1 ELSE 2 * Pow2(n - 1)

\* mutant: the delay is not cut to the remaining wait time
ComputeDelayNoRemainingCut(att, minDelay, maxDelay, remaining) ==
  IF att <= 0 \/ remaining <= 0 THEN {0}
  ELSE IF minDelay = 0 \/ maxDelay = 0 THEN {}
  ELSE LET attemptCeiling == FloorLog2(maxDelay \div minDelay) + 1
           d0 == IF att > attemptCeiling THEN maxDelay
                 ELSE minDelay * Pow2(att - 1)
       IN IF d0 # minDelay THEN minDelay .. (d0 - 1) ELSE {d0}

\* the delays smithywaiter.ComputeDelay may return (the jitter is random);
\* the empty set stands for its error return
ComputeDelay(att, minDelay, maxDelay, remaining) ==
  IF att <= 0 \/ remaining <= 0 THEN {0}
  ELSE IF minDelay = 0 \/ maxDelay = 0 THEN {}
  ELSE LET attemptCeiling == FloorLog2(maxDelay \div minDelay) + 1
           d0 == IF att > attemptCeiling THEN maxDelay
                 ELSE minDelay * Pow2(att - 1)
           jittered == IF d0 # minDelay THEN minDelay .. (d0 - 1) ELSE {d0}
       IN {IF remaining - d <= minDelay THEN remaining - minDelay ELSE d :
             d \in jittered}

(* ------------------------- lifecycle predicates ------------------------ *)
Retry == [retryable |-> TRUE, err |-> Nil]
Success == [retryable |-> FALSE, err |-> Nil]
\* the result of a Retryable function that has not returned yet
NotCalled == [retryable |-> FALSE, err |-> "not called"]
\* a failure state reported by a Retryable function the caller supplied
Failure == [retryable |-> FALSE, err |-> "failure state"]

\* what a Retryable function supplied by the caller may return: it overrides
\* the service defined behaviour on any output or error
CustomRetryable(output, callErr) == {Retry, Success, Failure}

\* mutant: any successful describe counts as a match
StandbyStateRetryableAnyState(output, callErr) ==
  IF callErr = Nil THEN Success ELSE Retry

autoScalingInstanceStandbyStateRetryable(output, callErr) ==
  IF callErr = Nil
  THEN LET listOfValues == output
           match == /\ Len(listOfValues) # 0
                    /\ \A n \in 1 .. Len(listOfValues) :
                         listOfValues[n] = LifecycleStateNameStandby
       IN IF match THEN Success ELSE Retry
  ELSE Retry

\* mutant: an empty list of lifecycle states counts as a match
InServiceStateRetryableEmptyMatches(output, callErr) ==
  IF callErr = Nil
  THEN LET listOfValues == output
           match == \A n \in 1 .. Len(listOfValues) :
                      listOfValues[n] = LifecycleStateNameInService
       IN IF match THEN Success ELSE Retry
  ELSE Retry

AutoScalingInstanceInServiceStateRetryable(output, callErr) ==
  IF callErr = Nil
  THEN LET listOfValues == output
           match == /\ Len(listOfValues) # 0
                    /\ \A n \in 1 .. Len(listOfValues) :
                         listOfValues[n] = LifecycleStateNameInService
       IN IF match THEN Success ELSE Retry
  ELSE Retry

(* ------------------ AutoScalingInstanceStandbyWaiter ------------------- *)
WaitResult(out, e) == [out |-> out, err |-> e]
NoOut == <<>>

\* mutant: only a negative maxWaitDur is rejected
StandbyMaxWaitDurRejectedNegative(dur) == dur < 0

\* maxWaitDur <= 0 is rejected before anything else
StandbyMaxWaitDurRejected(dur) == dur <= 0

\* mutant: the default replaces whatever MaxDelay was supplied
StandbyResolvedMaxDelayAlwaysDefault(o) == DefaultMaxDelay

\* options.MaxDelay after the "<= 0 means default" rule
StandbyResolvedMaxDelay(o) == IF o.MaxDelay <= 0 THEN DefaultMaxDelay ELSE o.MaxDelay

\* options.Retryable(ctx, params, out, err): the service defined function
\* unless the caller has replaced it
StandbyRetryable(o, output, callErr) ==
  IF o.Retryable = "default"
  THEN {autoScalingInstanceStandbyStateRetryable(output, callErr)}
  ELSE CustomRetryable(output, callErr)

\* ctx, cancelFn := context.WithTimeout(ctx, maxWaitDur): the deadline of the
\* waiter's own context lies before the end of a sleep that leaves less than
\* no budget
StandbyDeadlineExceeded(remaining) == remaining < 0

\* entry of WaitForOutput up to the start of the loop
StandbyWaitForOutput ==
  /\ wkind = "Standby" /\ wpc = "call"
  /\ IF StandbyMaxWaitDurRejected(maxWaitDur)
     THEN /\ wout' = WaitResult(NoOut, "maximum wait time for waiter must be greater than zero")
          /\ wpc' = "done"
          /\ UNCHANGED <<options, remainingTime, attempt>>
     ELSE LET o == [options EXCEPT !.MaxDelay = StandbyResolvedMaxDelay(options)]
          IN IF o.MinDelay > o.MaxDelay
             THEN /\ wout' = WaitResult(NoOut, "minimum waiter delay must be lesser than or equal to maximum waiter delay")
                  /\ wpc' = "done"
                  /\ UNCHANGED <<options, remainingTime, attempt>>
             ELSE /\ options' = o
                  /\ remainingTime' = maxWaitDur
                  /\ attempt' = 0
                  /\ wpc' = "probe"
                  /\ UNCHANGED wout
  /\ UNCHANGED <<seqVars, topoVars, stackVars, histVars, cloudVars, prepVars, wkind, maxWaitDur, params,
                 probes, sleeps, probeErr, retryable, ctxCancelled, predVars>>

\* mutant: an error of Retryable is taken for "retry"
StandbyAfterProbeErrorRetried(r, rem, minDelay) ==
  IF r.err = Nil /\ ~r.retryable THEN "return out"
  ELSE IF rem < minDelay \/ rem <= 0 THEN "break"
  ELSE "sleep"

\* mutant: the budget is tested before the answer of Retryable
StandbyAfterProbeBudgetFirst(r, rem, minDelay) ==
  IF rem < minDelay \/ rem <= 0 THEN "break"
  ELSE IF r.err # Nil THEN "return err"
  ELSE IF ~r.retryable THEN "return out"
  ELSE "sleep"

\* mutant: the loop is left only when no time at all remains
StandbyAfterProbeNoMinDelayTest(r, rem, minDelay) ==
  IF r.err # Nil THEN "return err"
  ELSE IF ~r.retryable THEN "return out"
  ELSE IF rem <= 0 THEN "break"
  ELSE "sleep"

\* what the loop does with the answer of Retryable and the time left after
\* the probe: return the error, return the output, leave the loop, or sleep
StandbyAfterProbe(r, rem, minDelay) ==
  IF r.err # Nil THEN "return err"
  ELSE IF ~r.retryable THEN "return out"
  ELSE IF rem < minDelay \/ rem <= 0 THEN "break"
  ELSE "sleep"

\* head of a turn of the loop: describe, Retryable, budget check
StandbyProbe ==
  /\ wkind = "Standby" /\ wpc = "probe"
  /\ attempt' = attempt + 1
  /\ probes' = probes + 1
  /\ \E lat \in Latencies, adv \in SUBSET Transitioning(params),
        callOk \in (IF ctxCancelled THEN {FALSE} ELSE BOOLEAN) :
       LET lc == Advance(adv)
           out == IF callOk THEN LifecycleStates(params, lc) ELSE NoOut
           callErr == IF callOk THEN Nil ELSE "DescribeAutoScalingInstances failed"
           rem == remainingTime - lat
       IN \E r \in StandbyRetryable(options, out, callErr) :
          /\ lifecycle' = lc
          /\ probeErr' = callErr
          /\ retryable' = r
          /\ LET what == StandbyAfterProbe(r, rem, options.MinDelay) IN
             IF what = "return err"
             THEN /\ wout' = WaitResult(NoOut, r.err)
                  /\ wpc' = "done"
                  /\ UNCHANGED remainingTime
             ELSE IF what = "return out"
             THEN /\ wout' = WaitResult(out, Nil)
                  /\ wpc' = "done"
                  /\ UNCHANGED remainingTime
             ELSE IF what = "break"
             THEN /\ wout' = WaitResult(NoOut, "exceeded max wait time for AutoScalingInstanceStandby waiter")
                  /\ wpc' = "done"
                  /\ remainingTime' = rem
             ELSE /\ remainingTime' = rem
                  /\ wpc' = "sleep"
                  /\ UNCHANGED wout
  /\ UNCHANGED <<seqVars, topoVars, stackVars, histVars, ec2State, asgMinSize, asgMaxSize, prepVars,
                 waitIn, sleeps, ctxCancelled, predVars>>

\* rest of the turn: delay := ComputeDelay(..), remainingTime -= delay,
\* smithytime.SleepWithContext(ctx, delay); delay is local to the turn
StandbySleep ==
  /\ wkind = "Standby" /\ wpc = "sleep"
  /\ LET delays == ComputeDelay(attempt, options.MinDelay, options.MaxDelay, remainingTime)
     IN IF delays = {}
        THEN /\ wout' = WaitResult(NoOut, "error computing waiter delay")
             /\ wpc' = "done"
             /\ UNCHANGED <<remainingTime, sleeps, retryable>>
        ELSE \E delay \in delays :
               /\ remainingTime' = remainingTime - delay
               /\ sleeps' = sleeps + 1
               /\ IF ctxCancelled \/ StandbyDeadlineExceeded(remainingTime - delay)
                  THEN /\ wout' = WaitResult(NoOut, "request cancelled while waiting")
                       /\ wpc' = "done"
                       /\ UNCHANGED retryable
                  ELSE /\ wpc' = "probe"
                       /\ retryable' = NotCalled
                       /\ UNCHANGED wout
  /\ probeErr' = Nil
  /\ UNCHANGED <<seqVars, topoVars, stackVars, histVars, cloudVars, prepVars, waitIn,
                 attempt, probes, ctxCancelled, predVars>>

(* ------------------ AutoScalingInstanceInServiceWaiter ----------------- *)
\* maxWaitDur <= 0 is rejected before anything else
InServiceMaxWaitDurRejected(dur) == dur <= 0

\* options.MaxDelay after the "<= 0 means default" rule
InServiceResolvedMaxDelay(o) == IF o.MaxDelay <= 0 THEN DefaultMaxDelay ELSE o.MaxDelay

\* options.Retryable(ctx, params, out, err)
InServiceRetryable(o, output, callErr) ==
  IF o.Retryable = "default"
  THEN {AutoScalingInstanceInServiceStateRetryable(output, callErr)}
  ELSE CustomRetryable(output, callErr)

\* ctx, cancelFn := context.WithTimeout(ctx, maxWaitDur)
InServiceDeadlineExceeded(remaining) == remaining < 0

\* entry of WaitForOutput up to the start of the loop
InServiceWaitForOutput ==
  /\ wkind = "InService" /\ wpc = "call"
  /\ IF InServiceMaxWaitDurRejected(maxWaitDur)
     THEN /\ wout' = WaitResult(NoOut, "maximum wait time for waiter must be greater than zero")
          /\ wpc' = "done"
          /\ UNCHANGED <<options, remainingTime, attempt>>
     ELSE LET o == [options EXCEPT !.MaxDelay = InServiceResolvedMaxDelay(options)]
          IN IF o.MinDelay > o.MaxDelay
             THEN /\ wout' = WaitResult(NoOut, "minimum waiter delay must be lesser than or equal to maximum waiter delay")
                  /\ wpc' = "done"
                  /\ UNCHANGED <<options, remainingTime, attempt>>
             ELSE /\ options' = o
                  /\ remainingTime' = maxWaitDur
                  /\ attempt' = 0
                  /\ wpc' = "probe"
                  /\ UNCHANGED wout
  /\ UNCHANGED <<seqVars, topoVars, stackVars, histVars, cloudVars, prepVars, wkind, maxWaitDur, params,
                 probes, sleeps, probeErr, retryable, ctxCancelled, predVars>>

\* mutant: the loop of this waiter is left only when no time at all remains
InServiceAfterProbeNoMinDelayTest(r, rem, minDelay) ==
  IF r.err # Nil THEN "return err"
  ELSE IF ~r.retryable THEN "return out"
  ELSE IF rem <= 0 THEN "break"
  ELSE "sleep"

\* what the loop does with the answer of Retryable and the time left after
\* the probe: return the error, return the output, leave the loop, or sleep
InServiceAfterProbe(r, rem, minDelay) ==
  IF r.err # Nil THEN "return err"
  ELSE IF ~r.retryable THEN "return out"
  ELSE IF rem < minDelay \/ rem <= 0 THEN "break"
  ELSE "sleep"

\* head of a turn of the loop: describe, Retryable, budget check
InServiceProbe ==
  /\ wkind = "InService" /\ wpc = "probe"
  /\ attempt' = attempt + 1
  /\ probes' = probes + 1
  /\ \E lat \in Latencies, adv \in SUBSET Transitioning(params),
        callOk \in (IF ctxCancelled THEN {FALSE} ELSE BOOLEAN) :
       LET lc == Advance(adv)
           out == IF callOk THEN LifecycleStates(params, lc) ELSE NoOut
           callErr == IF callOk THEN Nil ELSE "DescribeAutoScalingInstances failed"
           rem == remainingTime - lat
       IN \E r \in InServiceRetryable(options, out, callErr) :
          /\ lifecycle' = lc
          /\ probeErr' = callErr
          /\ retryable' = r
          /\ LET what == InServiceAfterProbe(r, rem, options.MinDelay) IN
             IF what = "return err"
             THEN /\ wout' = WaitResult(NoOut, r.err)
                  /\ wpc' = "done"
                  /\ UNCHANGED remainingTime
             ELSE IF what = "return out"
             THEN /\ wout' = WaitResult(out, Nil)
                  /\ wpc' = "done"
                  /\ UNCHANGED remainingTime
             ELSE IF what = "break"
             THEN /\ wout' = WaitResult(NoOut, "exceeded max wait time for AutoScalingInstanceInService waiter")
                  /\ wpc' = "done"
                  /\ remainingTime' = rem
             ELSE /\ remainingTime' = rem
                  /\ wpc' = "sleep"
                  /\ UNCHANGED wout
  /\ UNCHANGED <<seqVars, topoVars, stackVars, histVars, ec2State, asgMinSize, asgMaxSize, prepVars,
                 waitIn, sleeps, ctxCancelled, predVars>>

\* rest of the turn: delay := ComputeDelay(..), remainingTime -= delay,
\* smithytime.SleepWithContext(ctx, delay); delay is local to the turn
InServiceSleep ==
  /\ wkind = "InService" /\ wpc = "sleep"
  /\ LET delays == ComputeDelay(attempt, options.MinDelay, options.MaxDelay, remainingTime)
     IN IF delays = {}
        THEN /\ wout' = WaitResult(NoOut, "error computing waiter delay")
             /\ wpc' = "done"
             /\ UNCHANGED <<remainingTime, sleeps, retryable>>
        ELSE \E delay \in delays :
               /\ remainingTime' = remainingTime - delay
               /\ sleeps' = sleeps + 1
               /\ IF ctxCancelled \/ InServiceDeadlineExceeded(remainingTime - delay)
                  THEN /\ wout' = WaitResult(NoOut, "request cancelled while waiting")
                       /\ wpc' = "done"
                       /\ UNCHANGED retryable
                  ELSE /\ wpc' = "probe"
                       /\ retryable' = NotCalled
                       /\ UNCHANGED wout
  /\ probeErr' = Nil
  /\ UNCHANGED <<seqVars, topoVars, stackVars, histVars, cloudVars, prepVars, waitIn,
                 attempt, probes, ctxCancelled, predVars>>

(* --------------------------- the stack file --------------------------- *)
\* a filter that passes FilterStructLevelValidation
GoodFilter == [Name |-> "tag:stack", Values |-> <<"demo">>]

\* filters that do not: no name, an empty name, no values, an empty value
BadFilters ==
  {[GoodFilter EXCEPT !.Name = Nil], [GoodFilter EXCEPT !.Name = ""],
   [GoodFilter EXCEPT !.Values = <<>>], [GoodFilter EXCEPT !.Values = <<"demo", "">>]}

\* the value of the tag that tells the instances of group g (counted from 0)
GroupTag(g) == ToString(g)

\* the filter a stack document gives for group g
GroupFilter(g) == [Name |-> "tag:group", Values |-> <<GroupTag(g)>>]

\* types.Stack as yaml.Unmarshal fills it from a complete document with one
\* entry per group of the run
GoodStack ==
  [Name |-> "stack", Region |-> Nil, RoleARN |-> Nil, Filters |-> <<GoodFilter>>,
   Groups |-> [n \in 1 .. NGroups |-> [Name |-> "group", Filters |-> <<GroupFilter(n - 1)>>]]]

\* the same stack with an IAM role to assume
GoodStackWithRole == [GoodStack EXCEPT !.RoleARN = "arn:aws:iam::1:role/curator"]

\* stacks with one defect each
DefectiveStacks ==
  {[GoodStack EXCEPT !.Name = Nil], [GoodStack EXCEPT !.Name = ""],
   [GoodStack EXCEPT !.Region = ""], [GoodStack EXCEPT !.RoleARN = ""],
   [GoodStack EXCEPT !.Filters = <<>>], [GoodStack EXCEPT !.Groups = <<>>],
   [GoodStack EXCEPT !.Groups[1].Name = Nil],
   [GoodStack EXCEPT !.Groups[NGroups].Name = ""],
   [GoodStack EXCEPT !.Groups[NGroups].Filters = <<>>]}
  \cup {[GoodStack EXCEPT !.Filters = <<GoodFilter, f>>] : f \in BadFilters}
  \cup {[GoodStack EXCEPT !.Groups[NGroups].Filters = <<f>>] : f \in BadFilters}

\* what --stack may name: a file that cannot be read, one that is not YAML for
\* a Stack, or a document for one of the stacks above
StackFiles ==
  {[Error |-> "open: no such file", Stack |-> GoodStack, Spare |-> 0],
   [Error |-> "yaml: unmarshal errors", Stack |-> GoodStack, Spare |-> 0]}
  \cup {[Error |-> Nil, Stack |-> st, Spare |-> 0] :
          st \in {GoodStack, GoodStackWithRole} \cup DefectiveStacks}

\* validate:"required,gt=0" on a *string
RequiredString(p) == p # Nil /\ p # ""

\* validate:"omitempty,gt=0" on a *string
OptionalString(p) == p = Nil \/ p # ""

\* FilterStructLevelValidation reports no error for filter
FilterStructLevelValidation(filter) ==
  /\ ~(filter.Name = Nil \/ filter.Name = "")
  /\ ~(Len(filter.Values) = 0)
  /\ \A n \in 1 .. Len(filter.Values) : ~(filter.Values[n] = "")

\* validate:"required,gt=0,dive,required" on a []ec2Types.Filter
RequiredFilters(fs) ==
  /\ Len(fs) > 0
  /\ \A n \in 1 .. Len(fs) : FilterStructLevelValidation(fs[n])

\* mutant: the groups of the stack are not looked into
ValidateStackNoDive(st) ==
  IF /\ RequiredString(st.Name)
     /\ OptionalString(st.Region)
     /\ OptionalString(st.RoleARN)
     /\ RequiredFilters(st.Filters)
     /\ Len(st.Groups) > 0
  THEN Nil
  ELSE "stack validation failed"

\* validator.ValidateStack: validate.Struct(stack) with the tags of types.Stack
\* and types.Group
ValidateStack(st) ==
  IF /\ RequiredString(st.Name)
     /\ OptionalString(st.Region)
     /\ OptionalString(st.RoleARN)
     /\ RequiredFilters(st.Filters)
     /\ Len(st.Groups) > 0
     /\ \A n \in 1 .. Len(st.Groups) :
          /\ RequiredString(st.Groups[n].Name)
          /\ RequiredFilters(st.Groups[n].Filters)
  THEN Nil
  ELSE "stack validation failed"

\* the error initStack returns for the file: reading, unmarshalling, validating
initStack(file) ==
  IF file.Error # Nil THEN file.Error ELSE ValidateStack(file.Stack)

\* the zero value of an ec2Types.Filter
ZeroFilter == [Name |-> Nil, Values |-> <<>>]

\* var stack types.Stack before initStack has run; a slice is the array it
\* points into (as long as its capacity) and its length
ZeroStack ==
  [Name |-> Nil, Region |-> Nil, RoleARN |-> Nil,
   Filters |-> [array |-> <<>>, len |-> 0], Groups |-> <<>>]

\* yaml.Unmarshal(stackYaml, &stack): the decoder may leave file.Spare unused
\* elements of capacity behind the filters of the stack; Instances is not
\* read from the document
Unmarshal(file) ==
  [Name |-> file.Stack.Name, Region |-> file.Stack.Region, RoleARN |-> file.Stack.RoleARN,
   Filters |-> [array |-> file.Stack.Filters \o [n \in 1 .. file.Spare |-> ZeroFilter],
                len |-> Len(file.Stack.Filters)],
   Groups |-> [n \in 1 .. Len(file.Stack.Groups) |->
                 [Name |-> file.Stack.Groups[n].Name,
                  Filters |-> file.Stack.Groups[n].Filters,
                  Instances |-> <<>>]]]

\* the elements a slice shows
Elements(s) == SubSeq(s.array, 1, s.len)

(* ------------------------- sequencer: common --------------------------- *)
Asgs == 1 .. NInst

\* the filter RunE adds to every query
StateFilter == [Name |-> "instance-state-name", Values |-> <<"running", "stopped">>]

\* mutant: append writes over the last element of the slice
appendOverLast(s, elems) ==
  [array |-> SubSeq(s.array, 1, s.len - 1) \o elems
               \o SubSeq(s.array, s.len + Len(elems), Len(s.array)),
   len |-> s.len - 1 + Len(elems), grown |-> FALSE]

\* Go's append(s, elems...): the elements are written behind the slice into
\* its own array when the capacity allows, into a new array otherwise
append(s, elems) ==
  IF s.len + Len(elems) <= Len(s.array)
  THEN [array |-> [n \in 1 .. Len(s.array) |->
                     IF n > s.len /\ n <= s.len + Len(elems)
                     THEN elems[n - s.len] ELSE s.array[n]],
        len |-> s.len + Len(elems), grown |-> FALSE]
  ELSE [array |-> SubSeq(s.array, 1, s.len) \o elems,
        len |-> s.len + Len(elems), grown |-> TRUE]

\* mutant: every query is built with the filters of the first declared group
DescribeInstancesGroupFirst(st, n) == st.Groups[1]

\* group := stack.Groups[..]: a copy of the n-th declared group
DescribeInstancesGroup(st, n) == st.Groups[n]

\* filters := append(stack.Filters, group.Filters...) and
\* filters = append(filters, <the state filter>): the filters of the query and
\* the array of stack.Filters after the two calls
DescribeInstancesFilters(st, grp) ==
  LET f1 == append(st.Filters, grp.Filters)
      f2 == append(f1, <<StateFilter>>)
  IN [filters |-> Elements(f2),
      array |-> IF f1.grown THEN st.Filters.array
                ELSE IF f2.grown THEN f1.array ELSE f2.array]

\* the value of tag name on instance k ("tag:<key>" in a filter)
Tag(k, name) ==
  CASE name = "tag:stack" -> "demo"
    [] name = "tag:group" -> GroupTag(groupOf[k])
    [] OTHER -> Nil

\* instance k passes filter f: one of the values is the instance's
MatchesFilter(k, f) ==
  IF f.Name = "instance-state-name"
  THEN ec2State[k] \in Range(f.Values)
  ELSE Tag(k, f.Name) \in Range(f.Values)

\* ec2.DescribeInstances(Filters: fs): the instances that pass every filter
DescribeInstancesResult(fs) ==
  SeqOf({k \in Instances : \A n \in 1 .. Len(fs) : MatchesFilter(k, fs[n])})

\* len(g.Instances) of an Auto Scaling group: its members, Standby included
MemberCount(a) == Cardinality({k \in Instances : asgOf[k] = a /\ ec2State[k] # "terminated"})

\* "return e" in RunE
Return(e) ==
  /\ pc' = "returned"
  /\ err' = e
  /\ UNCHANGED <<i, reports>>

\* end of one iteration of "for i := range stack.Groups": the next group, or
\* the stack report and "return nil" after the last one
LoopNext(rep) ==
  /\ i' = i + 1
  /\ IF i + 1 < NGroups
     THEN /\ pc' = "DescribeInstances"
          /\ reports' = rep
          /\ UNCHANGED err
     ELSE /\ pc' = "returned"
          /\ reports' = Append(rep, Report("stack completed", -1))
          /\ err' = Nil

\* continue RunE at step; "completed" is the group report closing the body
Goto(step, rep) ==
  IF step = "completed"
  THEN LoopNext(Append(rep, Report("group completed", group.Name)))
  ELSE /\ pc' = step
       /\ reports' = rep
       /\ UNCHANGED <<i, err>>

\* mutant: a group without instances is not skipped
AfterDescribeNoSkip(n, dry) == IF dry THEN "dry" ELSE "mutate"

\* mutant: the dry-run flag is not honoured
AfterDescribeNoDryRun(n, dry) == IF n = 0 THEN "skip" ELSE "mutate"

\* what RunE does with the instances resolved for a group
AfterDescribe(n, dry) ==
  IF n = 0 THEN "skip" ELSE IF dry THEN "dry" ELSE "mutate"

\* the standby waiter is created with MaxDelay = time.Minute and called with
\* DefaultWaitDuration
StartWait(kind, ids) ==
  /\ wkind' = kind
  /\ maxWaitDur' = DefaultWaitDuration
  /\ options' = [MinDelay |-> DefaultMinDelay, MaxDelay |-> PrepareMaxDelay,
                  Retryable |-> "default"]
  /\ params' = ids
  /\ wpc' = "call"
  /\ probes' = 0
  /\ sleeps' = 0
  /\ probeErr' = Nil
  /\ retryable' = NotCalled
  /\ remainingTime' = 0
  /\ attempt' = 0
  /\ wout' = WaitResult(NoOut, Nil)

\* WaitForOutput has returned to its caller: its frame is gone
WaitReturned ==
  /\ wkind' = "none"
  /\ wpc' = "idle"
  /\ maxWaitDur' = 0
  /\ options' = [MinDelay |-> 0, MaxDelay |-> 0, Retryable |-> "default"]
  /\ params' = <<>>
  /\ remainingTime' = 0
  /\ attempt' = 0
  /\ probes' = 0
  /\ sleeps' = 0
  /\ probeErr' = Nil
  /\ retryable' = NotCalled
  /\ wout' = WaitResult(NoOut, Nil)

\* the describe-groups answer for the ASGs in names
GroupsOutput(names) ==
  LET sq == SeqOf(names)
  IN [n \in 1 .. Len(sq) |->
        [AutoScalingGroupName |-> sq[n], MinSize |-> asgMinSize[sq[n]],
         MaxSize |-> asgMaxSize[sq[n]], Instances |-> MemberCount(sq[n])]]

(* ----------------------- shutdownCmd.RunE ------------------------------ *)
ShutdownGroupIndex(n) == n

\* mutant: the next group is started without waiting for the stopped state
ShutdownNextNoStoppedWait(step) ==
  CASE step = "DescribeInstances" -> "PrepareInstanceGroupForShutdown"
    [] step = "PrepareInstanceGroupForShutdown" -> "StopInstances"
    [] step = "StopInstances" -> "completed"
    [] step = "InstanceStoppedWait" -> "completed"

\* order of the steps of one group in shutdownCmd.RunE
ShutdownNext(step) ==
  CASE step = "DescribeInstances" -> "PrepareInstanceGroupForShutdown"
    [] step = "PrepareInstanceGroupForShutdown" -> "StopInstances"
    [] step = "StopInstances" -> "InstanceStoppedWait"
    [] step = "InstanceStoppedWait" -> "completed"

\* mutant: the result of PrepareInstanceGroupForShutdown is dropped
ShutdownPrepareErrDropped(e) == Nil

\* the error RunE acts on after PrepareInstanceGroupForShutdown returned e
ShutdownPrepareErr(e) == e

ShutdownDescribeInstances ==
  /\ command = "shutdown" /\ pc = "DescribeInstances"
  /\ LET g == ShutdownGroupIndex(i)
         built == DescribeInstancesFilters(stack, DescribeInstancesGroup(stack, g + 1))
     IN
     \E ok \in BOOLEAN :
       /\ filters' = built.filters
       /\ stack' = [stack EXCEPT !.Filters.array = built.array]
       /\ calls' = Append(calls, Call("DescribeInstances", g, NoAsg, <<>>, -1, ok))
       /\ IF ~ok
          THEN /\ Return("DescribeInstances failed")
               /\ group' = [Name |-> g, Instances |-> <<>>]
               /\ UNCHANGED instanceIds
          ELSE LET res == DescribeInstancesResult(built.filters)
                   what == AfterDescribe(Len(res), dryRun)
               IN /\ group' = [Name |-> g, Instances |-> res]
                  /\ IF what = "skip"
                     THEN /\ LoopNext(Append(reports, Report("No instances", g)))
                          /\ UNCHANGED instanceIds
                     ELSE /\ instanceIds' = res
                          /\ IF what = "dry"
                             THEN LoopNext(reports)
                             ELSE /\ pc' = ShutdownNext("DescribeInstances")
                                  /\ UNCHANGED <<i, err, reports>>
  /\ UNCHANGED <<command, dryRun, exitCode, topoVars, histVars, cloudVars, prepVars,
                 waitIn, waitLoc, ctxCancelled, predVars>>

\* PrepareInstanceGroupForShutdown returns e to RunE
ShutdownPrepareReturn(e, cs) ==
  /\ prepErr' = e
  /\ calls' = Append(cs, Call("PrepareInstanceGroupForShutdown.return", group.Name, NoAsg, <<>>, -1, e = Nil))
  /\ IF ShutdownPrepareErr(e) # Nil
     THEN Return(ShutdownPrepareErr(e))
     ELSE Goto(ShutdownNext("PrepareInstanceGroupForShutdown"), reports)

\* mutant: every instance of the group is put into Standby
ShutdownEligibleAny(state) == TRUE

\* only InService instances may be put into Standby
ShutdownEligible(state) == state = LifecycleStateNameInService

\* autoscalingInstances as built from the describe output
ShutdownAutoscalingInstances(ids) ==
  [a \in Asgs |->
     SelectSeq(Described(ids), LAMBDA k : asgOf[k] = a /\ ShutdownEligible(lifecycle[k]))]

ShutdownDescribeAutoScalingInstances ==
  /\ command = "shutdown" /\ pc = "PrepareInstanceGroupForShutdown"
  /\ LET ids == group.Instances IN
     \E ok \in BOOLEAN :
       LET cs == Append(calls, Call("DescribeAutoScalingInstances", group.Name, NoAsg, ids, -1, ok))
           asi == ShutdownAutoscalingInstances(ids)
       IN IF ~ok
          THEN /\ ShutdownPrepareReturn("DescribeAutoScalingInstances failed", cs)
               /\ UNCHANGED <<autoscalingInstances, describeAutoScalingGroupsOutput, gidx, waitForInstanceIds>>
          ELSE /\ autoscalingInstances' = asi
               /\ describeAutoScalingGroupsOutput' = <<>>
               /\ gidx' = 0
               /\ waitForInstanceIds' = <<>>
               /\ IF \A a \in Asgs : asi[a] = <<>>
                  THEN ShutdownPrepareReturn(Nil, cs)
                  ELSE /\ pc' = "PSD.DescribeAutoScalingGroups"
                       /\ calls' = cs
                       /\ prepErr' = "-"
                       /\ UNCHANGED <<i, err, reports>>
  /\ UNCHANGED <<command, dryRun, group, instanceIds, exitCode, topoVars, stackVars, histVars, cloudVars,
                 waitIn, waitLoc, ctxCancelled, predVars>>

ShutdownDescribeAutoScalingGroups ==
  /\ command = "shutdown" /\ pc = "PSD.DescribeAutoScalingGroups"
  /\ LET asgNames == {a \in Asgs : autoscalingInstances[a] # <<>>} IN
     \E ok \in BOOLEAN, returned \in SUBSET asgNames :
       LET cs == Append(calls, Call("DescribeAutoScalingGroups", group.Name, NoAsg, SeqOf(asgNames), -1, ok))
       IN IF ~ok
          THEN /\ ShutdownPrepareReturn("DescribeAutoScalingGroups failed", cs)
               /\ UNCHANGED <<describeAutoScalingGroupsOutput, gidx, waitForInstanceIds>>
          ELSE /\ describeAutoScalingGroupsOutput' = GroupsOutput(returned)
               /\ gidx' = 1
               /\ waitForInstanceIds' = <<>>
               /\ pc' = "PSD.loop"
               /\ calls' = cs
               /\ UNCHANGED <<i, err, reports, prepErr>>
  /\ UNCHANGED <<command, dryRun, group, instanceIds, exitCode, topoVars, stackVars, histVars, cloudVars,
                 autoscalingInstances, waitIn, waitLoc, ctxCancelled, predVars>>

\* mutant: the new MinSize is not floored at 0
ShutdownMinSizeNoFloor(minSize, n) == minSize - n

\* the MinSize sent before a putting into standby
ShutdownMinSize(minSize, n) == IF minSize - n < 0 THEN 0 ELSE minSize - n

\* mutant: MinSize is never lowered before a putting into standby
ShutdownNeedsMinSizeNever(minSize) == FALSE

\* MinSize is updated before a putting into standby when it is positive
ShutdownNeedsMinSize(minSize) == minSize > 0

\* head of the loop over the described groups and the MinSize update
ShutdownUpdateMinSize ==
  /\ command = "shutdown" /\ pc = "PSD.loop"
  /\ gidx <= Len(describeAutoScalingGroupsOutput)
  /\ LET g == describeAutoScalingGroupsOutput[gidx]
         ids == autoscalingInstances[g.AutoScalingGroupName]
     IN IF ids = <<>>
        THEN /\ gidx' = gidx + 1
             /\ UNCHANGED <<seqVars, asgMinSize, prepErr>>
        ELSE IF ShutdownNeedsMinSize(g.MinSize)
        THEN \E ok \in BOOLEAN :
               LET minSize == ShutdownMinSize(g.MinSize, Len(ids))
                   cs == Append(calls, Call("UpdateAutoScalingGroup.MinSize", group.Name,
                                            g.AutoScalingGroupName, <<>>, minSize, ok))
               IN IF ok
                  THEN /\ asgMinSize' = [asgMinSize EXCEPT ![g.AutoScalingGroupName] = minSize]
                       /\ pc' = "PSD.EnterStandby"
                       /\ calls' = cs
                       /\ UNCHANGED <<i, err, reports, prepErr, gidx>>
                  ELSE /\ ShutdownPrepareReturn("UpdateAutoScalingGroup failed", cs)
                       /\ UNCHANGED <<asgMinSize, gidx>>
        ELSE /\ pc' = "PSD.EnterStandby"
             /\ UNCHANGED <<i, err, reports, calls, prepErr, gidx, asgMinSize>>
  /\ UNCHANGED <<command, dryRun, group, instanceIds, exitCode, topoVars, stackVars, histVars, ec2State,
                 lifecycle, asgMaxSize, autoscalingInstances,
                 describeAutoScalingGroupsOutput, waitForInstanceIds,
                 waitIn, waitLoc, ctxCancelled, predVars>>

\* mutant: the error of EnterStandby is not looked at
ShutdownEnterStandbyAbortsNever(ok) == FALSE

\* "if err != nil { return err }" after EnterStandby
ShutdownEnterStandbyAborts(ok) == ~ok

ShutdownEnterStandby ==
  /\ command = "shutdown" /\ pc = "PSD.EnterStandby"
  /\ LET g == describeAutoScalingGroupsOutput[gidx]
         ids == autoscalingInstances[g.AutoScalingGroupName]
     IN \E ok \in BOOLEAN :
          LET cs == Append(calls, Call("EnterStandby", group.Name, g.AutoScalingGroupName, ids, 1, ok))
          IN IF ~ShutdownEnterStandbyAborts(ok)
             THEN /\ lifecycle' = [k \in Instances |->
                                     IF ok /\ k \in Range(ids) THEN "EnteringStandby" ELSE lifecycle[k]]
                  /\ waitForInstanceIds' = waitForInstanceIds \o ids
                  /\ gidx' = gidx + 1
                  /\ pc' = "PSD.loop"
                  /\ calls' = cs
                  /\ UNCHANGED <<i, err, reports, prepErr>>
             ELSE /\ ShutdownPrepareReturn("EnterStandby failed", cs)
                  /\ UNCHANGED <<lifecycle, waitForInstanceIds, gidx>>
  /\ UNCHANGED <<command, dryRun, group, instanceIds, exitCode, topoVars, stackVars, histVars, ec2State,
                 asgMinSize, asgMaxSize, autoscalingInstances,
                 describeAutoScalingGroupsOutput, waitIn, waitLoc, ctxCancelled, predVars>>

\* mutant: only the instances of the last Auto Scaling group are waited for
ShutdownWaitInputLastOnly(ids) == SubSeq(ids, Len(ids), Len(ids))

\* InstanceIds of the describe input the standby waiter probes with
ShutdownWaitInput(ids) == ids

\* after the loop: nothing to wait for, or the standby wait is started
ShutdownStandbyWait ==
  /\ command = "shutdown" /\ pc = "PSD.loop"
  /\ gidx > Len(describeAutoScalingGroupsOutput)
  /\ IF Len(waitForInstanceIds) = 0
     THEN /\ ShutdownPrepareReturn(Nil, calls)
          /\ UNCHANGED <<waitIn, waitLoc>>
     ELSE /\ StartWait("Standby", ShutdownWaitInput(waitForInstanceIds))
          /\ pc' = "PSD.wait"
          /\ UNCHANGED <<i, err, reports, calls, prepErr>>
  /\ UNCHANGED <<command, dryRun, group, instanceIds, exitCode, topoVars, stackVars, histVars, cloudVars,
                 autoscalingInstances, describeAutoScalingGroupsOutput, gidx,
                 waitForInstanceIds, ctxCancelled, predVars>>

\* standbyWaiter.WaitForOutput has returned
ShutdownStandbyWaitReturn ==
  /\ command = "shutdown" /\ pc = "PSD.wait" /\ wpc = "done"
  /\ WaitReturned
  /\ ShutdownPrepareReturn(wout.err, calls)
  /\ UNCHANGED <<command, dryRun, group, instanceIds, exitCode, topoVars, stackVars, histVars, cloudVars,
                 autoscalingInstances, describeAutoScalingGroupsOutput, gidx,
                 waitForInstanceIds, ctxCancelled, predVars>>

StopInstances ==
  /\ command = "shutdown" /\ pc = "StopInstances"
  /\ \E ok \in BOOLEAN :
       /\ calls' = Append(calls, Call("StopInstances", group.Name, NoAsg, instanceIds, -1, ok))
       /\ IF ok
          THEN /\ ec2State' = [k \in Instances |->
                                 IF k \in Range(instanceIds) /\ ec2State[k] = "running"
                                 THEN "stopping" ELSE ec2State[k]]
               /\ Goto(ShutdownNext("StopInstances"), reports)
          ELSE /\ Return("StopInstances failed")
               /\ UNCHANGED ec2State
  /\ UNCHANGED <<command, dryRun, group, instanceIds, exitCode, topoVars, stackVars, histVars, lifecycle,
                 asgMinSize, asgMaxSize, prepVars, waitIn, waitLoc, ctxCancelled, predVars>>

\* ec2.NewInstanceStoppedWaiter(...).WaitForOutput
InstanceStoppedWait ==
  /\ command = "shutdown" /\ pc = "InstanceStoppedWait"
  /\ \E ok \in BOOLEAN :
       /\ calls' = Append(calls, Call("InstanceStoppedWait", group.Name, NoAsg, instanceIds, -1, ok))
       /\ IF ok
          THEN /\ ec2State' = [k \in Instances |->
                                 IF k \in Range(instanceIds) THEN "stopped" ELSE ec2State[k]]
               /\ Goto(ShutdownNext("InstanceStoppedWait"), reports)
          ELSE /\ Return("InstanceStoppedWait failed")
               /\ UNCHANGED ec2State
  /\ UNCHANGED <<command, dryRun, group, instanceIds, exitCode, topoVars, stackVars, histVars, lifecycle,
                 asgMinSize, asgMaxSize, prepVars, waitIn, waitLoc, ctxCancelled, predVars>>

(* ------------------------ startupCmd.RunE ------------------------------ *)
\* mutant: startup visits in declared order
StartupGroupIndexDeclared(n) == n

StartupGroupIndex(n) == NGroups - 1 - n

\* mutant: the capacity controller runs before the start call
StartupNextPrepareFirst(step) ==
  CASE step = "DescribeInstances" -> "PrepareInstanceGroupForStartup"
    [] step = "PrepareInstanceGroupForStartup" -> "StartInstances"
    [] step = "StartInstances" -> "InstanceStatusOkWait"
    [] step = "InstanceStatusOkWait" -> "completed"

\* order of the steps of one group in startupCmd.RunE
StartupNext(step) ==
  CASE step = "DescribeInstances" -> "StartInstances"
    [] step = "StartInstances" -> "InstanceStatusOkWait"
    [] step = "InstanceStatusOkWait" -> "PrepareInstanceGroupForStartup"
    [] step = "PrepareInstanceGroupForStartup" -> "completed"

\* the error RunE acts on after PrepareInstanceGroupForStartup returned e:
\* the call is a statement, its result is dropped
StartupPrepareErr(e) == Nil

StartupDescribeInstances ==
  /\ command = "startup" /\ pc = "DescribeInstances"
  /\ LET g == StartupGroupIndex(i)
         built == DescribeInstancesFilters(stack, DescribeInstancesGroup(stack, g + 1))
     IN
     \E ok \in BOOLEAN :
       /\ filters' = built.filters
       /\ stack' = [stack EXCEPT !.Filters.array = built.array]
       /\ calls' = Append(calls, Call("DescribeInstances", g, NoAsg, <<>>, -1, ok))
       /\ IF ~ok
          THEN /\ Return("DescribeInstances failed")
               /\ group' = [Name |-> g, Instances |-> <<>>]
               /\ UNCHANGED instanceIds
          ELSE LET res == DescribeInstancesResult(built.filters)
                   what == AfterDescribe(Len(res), dryRun)
               IN /\ group' = [Name |-> g, Instances |-> res]
                  /\ IF what = "skip"
                     THEN /\ LoopNext(Append(reports, Report("No instances", g)))
                          /\ UNCHANGED instanceIds
                     ELSE /\ instanceIds' = res
                          /\ IF what = "dry"
                             THEN LoopNext(reports)
                             ELSE /\ pc' = StartupNext("DescribeInstances")
                                  /\ UNCHANGED <<i, err, reports>>
  /\ UNCHANGED <<command, dryRun, exitCode, topoVars, histVars, cloudVars, prepVars,
                 waitIn, waitLoc, ctxCancelled, predVars>>

StartInstances ==
  /\ command = "startup" /\ pc = "StartInstances"
  /\ \E ok \in BOOLEAN :
       /\ calls' = Append(calls, Call("StartInstances", group.Name, NoAsg, instanceIds, -1, ok))
       /\ IF ok
          THEN /\ ec2State' = [k \in Instances |->
                                 IF k \in Range(instanceIds) /\ ec2State[k] = "stopped"
                                 THEN "pending" ELSE ec2State[k]]
               /\ Goto(StartupNext("StartInstances"), reports)
          ELSE /\ Return("StartInstances failed")
               /\ UNCHANGED ec2State
  /\ UNCHANGED <<command, dryRun, group, instanceIds, exitCode, topoVars, stackVars, histVars, lifecycle,
                 asgMinSize, asgMaxSize, prepVars, waitIn, waitLoc, ctxCancelled, predVars>>

\* ec2.NewInstanceStatusOkWaiter(...).WaitForOutput
InstanceStatusOkWait ==
  /\ command = "startup" /\ pc = "InstanceStatusOkWait"
  /\ \E ok \in BOOLEAN :
       /\ calls' = Append(calls, Call("InstanceStatusOkWait", group.Name, NoAsg, instanceIds, -1, ok))
       /\ IF ok
          THEN /\ ec2State' = [k \in Instances |->
                                 IF k \in Range(instanceIds) THEN "running" ELSE ec2State[k]]
               /\ Goto(StartupNext("InstanceStatusOkWait"), reports)
          ELSE /\ Return("InstanceStatusOkWait failed")
               /\ UNCHANGED ec2State
  /\ UNCHANGED <<command, dryRun, group, instanceIds, exitCode, topoVars, stackVars, histVars, lifecycle,
                 asgMinSize, asgMaxSize, prepVars, waitIn, waitLoc, ctxCancelled, predVars>>

\* PrepareInstanceGroupForStartup returns e to RunE
StartupPrepareReturn(e, cs) ==
  /\ prepErr' = e
  /\ calls' = Append(cs, Call("PrepareInstanceGroupForStartup.return", group.Name, NoAsg, <<>>, -1, e = Nil))
  /\ IF StartupPrepareErr(e) # Nil
     THEN Return(StartupPrepareErr(e))
     ELSE Goto(StartupNext("PrepareInstanceGroupForStartup"), reports)

\* mutant: every instance of the group is put into InService
StartupEligibleAny(state) == TRUE

\* only Standby instances may be put into InService
StartupEligible(state) == state = LifecycleStateNameStandby

StartupAutoscalingInstances(ids) ==
  [a \in Asgs |->
     SelectSeq(Described(ids), LAMBDA k : asgOf[k] = a /\ StartupEligible(lifecycle[k]))]

StartupDescribeAutoScalingInstances ==
  /\ command = "startup" /\ pc = "PrepareInstanceGroupForStartup"
  /\ LET ids == group.Instances IN
     \E ok \in BOOLEAN :
       LET cs == Append(calls, Call("DescribeAutoScalingInstances", group.Name, NoAsg, ids, -1, ok))
           asi == StartupAutoscalingInstances(ids)
       IN IF ~ok
          THEN /\ StartupPrepareReturn("DescribeAutoScalingInstances failed", cs)
               /\ UNCHANGED <<autoscalingInstances, describeAutoScalingGroupsOutput, gidx, waitForInstanceIds>>
          ELSE /\ autoscalingInstances' = asi
               /\ describeAutoScalingGroupsOutput' = <<>>
               /\ gidx' = 0
               /\ waitForInstanceIds' = <<>>
               /\ IF \A a \in Asgs : asi[a] = <<>>
                  THEN StartupPrepareReturn(Nil, cs)
                  ELSE /\ pc' = "PSU.DescribeAutoScalingGroups"
                       /\ calls' = cs
                       /\ prepErr' = "-"
                       /\ UNCHANGED <<i, err, reports>>
  /\ UNCHANGED <<command, dryRun, group, instanceIds, exitCode, topoVars, stackVars, histVars, cloudVars,
                 waitIn, waitLoc, ctxCancelled, predVars>>

StartupDescribeAutoScalingGroups ==
  /\ command = "startup" /\ pc = "PSU.DescribeAutoScalingGroups"
  /\ LET asgNames == {a \in Asgs : autoscalingInstances[a] # <<>>} IN
     \E ok \in BOOLEAN, returned \in SUBSET asgNames :
       LET cs == Append(calls, Call("DescribeAutoScalingGroups", group.Name, NoAsg, SeqOf(asgNames), -1, ok))
       IN IF ~ok
          THEN /\ StartupPrepareReturn("DescribeAutoScalingGroups failed", cs)
               /\ UNCHANGED <<describeAutoScalingGroupsOutput, gidx, waitForInstanceIds>>
          ELSE /\ describeAutoScalingGroupsOutput' = GroupsOutput(returned)
               /\ gidx' = 1
               /\ waitForInstanceIds' = <<>>
               /\ pc' = "PSU.loop"
               /\ calls' = cs
               /\ UNCHANGED <<i, err, reports, prepErr>>
  /\ UNCHANGED <<command, dryRun, group, instanceIds, exitCode, topoVars, stackVars, histVars, cloudVars,
                 autoscalingInstances, waitIn, waitLoc, ctxCancelled, predVars>>

\* mutant: MaxSize is also rewritten when it equals the member count
StartupNeedsMaxSizeOrEqual(maxSize, members) == maxSize <= members

\* mutant: MaxSize is never raised before a return to service
StartupNeedsMaxSizeNever(maxSize, members) == FALSE

\* MaxSize is updated when it is below the member count
StartupNeedsMaxSize(maxSize, members) == maxSize < members

\* head of the first loop over the described groups and the MaxSize update
StartupUpdateMaxSize ==
  /\ command = "startup" /\ pc = "PSU.loop"
  /\ gidx <= Len(describeAutoScalingGroupsOutput)
  /\ LET g == describeAutoScalingGroupsOutput[gidx]
         ids == autoscalingInstances[g.AutoScalingGroupName]
     IN IF ids = <<>>
        THEN /\ gidx' = gidx + 1
             /\ UNCHANGED <<seqVars, asgMaxSize, prepErr>>
        ELSE IF StartupNeedsMaxSize(g.MaxSize, g.Instances)
        THEN \E ok \in BOOLEAN :
               LET maxSize == g.Instances
                   cs == Append(calls, Call("UpdateAutoScalingGroup.MaxSize", group.Name,
                                            g.AutoScalingGroupName, <<>>, maxSize, ok))
               IN IF ok
                  THEN /\ asgMaxSize' = [asgMaxSize EXCEPT ![g.AutoScalingGroupName] = maxSize]
                       /\ pc' = "PSU.ExitStandby"
                       /\ calls' = cs
                       /\ UNCHANGED <<i, err, reports, prepErr, gidx>>
                  ELSE /\ StartupPrepareReturn("UpdateAutoScalingGroup failed", cs)
                       /\ UNCHANGED <<asgMaxSize, gidx>>
        ELSE /\ pc' = "PSU.ExitStandby"
             /\ UNCHANGED <<i, err, reports, calls, prepErr, gidx, asgMaxSize>>
  /\ UNCHANGED <<command, dryRun, group, instanceIds, exitCode, topoVars, stackVars, histVars, ec2State,
                 lifecycle, asgMinSize, autoscalingInstances,
                 describeAutoScalingGroupsOutput, waitForInstanceIds,
                 waitIn, waitLoc, ctxCancelled, predVars>>

StartupExitStandby ==
  /\ command = "startup" /\ pc = "PSU.ExitStandby"
  /\ LET g == describeAutoScalingGroupsOutput[gidx]
         ids == autoscalingInstances[g.AutoScalingGroupName]
     IN \E ok \in BOOLEAN :
          LET cs == Append(calls, Call("ExitStandby", group.Name, g.AutoScalingGroupName, ids, -1, ok))
          IN IF ok
             THEN /\ lifecycle' = [k \in Instances |->
                                     IF k \in Range(ids) THEN "Pending" ELSE lifecycle[k]]
                  /\ waitForInstanceIds' = waitForInstanceIds \o ids
                  /\ gidx' = gidx + 1
                  /\ pc' = "PSU.loop"
                  /\ calls' = cs
                  /\ UNCHANGED <<i, err, reports, prepErr>>
             ELSE /\ StartupPrepareReturn("ExitStandby failed", cs)
                  /\ UNCHANGED <<lifecycle, waitForInstanceIds, gidx>>
  /\ UNCHANGED <<command, dryRun, group, instanceIds, exitCode, topoVars, stackVars, histVars, ec2State,
                 asgMinSize, asgMaxSize, autoscalingInstances,
                 describeAutoScalingGroupsOutput, waitIn, waitLoc, ctxCancelled, predVars>>

\* after the first loop: nothing to wait for, or the in-service wait is started
StartupInServiceWait ==
  /\ command = "startup" /\ pc = "PSU.loop"
  /\ gidx > Len(describeAutoScalingGroupsOutput)
  /\ IF Len(waitForInstanceIds) = 0
     THEN /\ StartupPrepareReturn(Nil, calls)
          /\ UNCHANGED <<waitIn, waitLoc>>
     ELSE /\ StartWait("InService", waitForInstanceIds)
          /\ pc' = "PSU.wait"
          /\ UNCHANGED <<i, err, reports, calls, prepErr>>
  /\ UNCHANGED <<command, dryRun, group, instanceIds, exitCode, topoVars, stackVars, histVars, cloudVars,
                 autoscalingInstances, describeAutoScalingGroupsOutput, gidx,
                 waitForInstanceIds, ctxCancelled, predVars>>

\* inServiceWaiter.WaitForOutput has returned
StartupInServiceWaitReturn ==
  /\ command = "startup" /\ pc = "PSU.wait" /\ wpc = "done"
  /\ WaitReturned
  /\ IF wout.err # Nil
     THEN /\ StartupPrepareReturn(wout.err, calls)
          /\ UNCHANGED gidx
     ELSE /\ gidx' = 1
          /\ pc' = "PSU.minloop"
          /\ UNCHANGED <<i, err, reports, calls, prepErr>>
  /\ UNCHANGED <<command, dryRun, group, instanceIds, exitCode, topoVars, stackVars, histVars, cloudVars,
                 autoscalingInstances, describeAutoScalingGroupsOutput,
                 waitForInstanceIds, ctxCancelled, predVars>>

\* mutant: MinSize is rewritten whatever its value
StartupNeedsMinSizeAlways(minSize, n) == TRUE

\* MinSize is updated when it is below the number of instances returned
StartupNeedsMinSize(minSize, n) == ~(minSize >= n)

\* second loop: MinSize after a returning an instance to service
StartupUpdateMinSize ==
  /\ command = "startup" /\ pc = "PSU.minloop"
  /\ IF gidx > Len(describeAutoScalingGroupsOutput)
     THEN /\ StartupPrepareReturn(Nil, calls)
          /\ UNCHANGED <<gidx, asgMinSize>>
     ELSE LET g == describeAutoScalingGroupsOutput[gidx]
              ids == autoscalingInstances[g.AutoScalingGroupName]
              minSize == Len(ids)
          IN IF ids = <<>> \/ ~StartupNeedsMinSize(g.MinSize, minSize)
             THEN /\ gidx' = gidx + 1
                  /\ UNCHANGED <<i, pc, err, reports, calls, prepErr, asgMinSize>>
             ELSE \E ok \in BOOLEAN :
                    LET cs == Append(calls, Call("UpdateAutoScalingGroup.MinSize", group.Name,
                                                 g.AutoScalingGroupName, <<>>, minSize, ok))
                    IN IF ok
                       THEN /\ asgMinSize' = [asgMinSize EXCEPT ![g.AutoScalingGroupName] = minSize]
                            /\ gidx' = gidx + 1
                            /\ calls' = cs
                            /\ UNCHANGED <<i, pc, err, reports, prepErr>>
                       ELSE /\ StartupPrepareReturn("UpdateAutoScalingGroup failed", cs)
                            /\ UNCHANGED <<asgMinSize, gidx>>
  /\ UNCHANGED <<command, dryRun, group, instanceIds, exitCode, topoVars, stackVars, histVars, ec2State,
                 lifecycle, asgMaxSize, autoscalingInstances,
                 describeAutoScalingGroupsOutput, waitForInstanceIds,
                 waitIn, waitLoc, ctxCancelled, predVars>>

(* ------------------------- head of every RunE -------------------------- *)
\* "if err := initStack(); err != nil { return err }"; the validate command
\* has nothing else to do
InitStack ==
  /\ pc = "initStack"
  /\ stack' = (IF stackFile.Error = Nil THEN Unmarshal(stackFile) ELSE stack)
  /\ LET e == initStack(stackFile)
     IN IF e # Nil THEN Return(e)
        ELSE IF command = "validate" THEN Return(Nil)
        ELSE /\ pc' = "initAWS"
             /\ UNCHANGED <<i, err, reports>>
  /\ UNCHANGED <<command, dryRun, group, instanceIds, exitCode, calls, topoVars, filters, histVars,
                 cloudVars, prepVars, waitIn, waitLoc, ctxCancelled, predVars>>

\* initAWS: the default configuration is loaded and, when the stack names a
\* role, credentials for it are retrieved from STS
InitAWS ==
  /\ pc = "initAWS"
  /\ \E ok \in BOOLEAN :
       IF stackFile.Stack.RoleARN # Nil
       THEN /\ calls' = Append(calls, Call("AssumeRole", -1, NoAsg, <<>>, -1, ok))
            /\ IF ok
               THEN /\ pc' = "DescribeInstances"
                    /\ UNCHANGED <<i, err, reports>>
               ELSE Return("AssumeRole failed")
       ELSE /\ UNCHANGED calls
            /\ IF ok
               THEN /\ pc' = "DescribeInstances"
                    /\ UNCHANGED <<i, err, reports>>
               ELSE Return("LoadDefaultConfig failed")
  /\ UNCHANGED <<command, dryRun, group, instanceIds, exitCode, topoVars, stackVars, histVars,
                 cloudVars, prepVars, waitIn, waitLoc, ctxCancelled, predVars>>

(* ------------------------------ Execute -------------------------------- *)
\* mutant: the process exits with status 0 whatever RunE returned
ExitStatusZero(e) == 0

\* os.Exit(1) when rootCmd.Execute() returned an error
ExitStatus(e) == IF e # Nil THEN 1 ELSE 0

Execute ==
  /\ pc = "returned"
  /\ exitCode' = ExitStatus(err)
  /\ pc' = "exited"
  /\ UNCHANGED <<command, dryRun, i, group, instanceIds, err, reports, calls,
                 topoVars, stackVars, histVars, cloudVars, prepVars, waitIn, waitLoc, ctxCancelled, predVars>>

(* ------------------------- the environment ----------------------------- *)
\* the caller of a waiter cancels its context
Cancel ==
  /\ pc = "waiter" /\ wpc \in {"probe", "sleep"}
  /\ ~ctxCancelled
  /\ ctxCancelled' = TRUE
  /\ UNCHANGED <<seqVars, topoVars, stackVars, histVars, cloudVars, prepVars, waitIn, waitLoc, predVars>>

\* somebody else calls UpdateAutoScalingGroup on an ASG while
\* PrepareInstanceGroupForStartup waits for its instances, once per run
ExternalUpdateAutoScalingGroup ==
  /\ command = "startup" /\ pc = "PSU.wait"
  /\ asgMinSize = minSizeAtStart
  /\ \E a \in Asgs, minSize \in 0 .. (MaxSize + NInst) :
       /\ minSize # asgMinSize[a]
       /\ asgMinSize' = [asgMinSize EXCEPT ![a] = minSize]
       /\ asgMaxSize' = [asgMaxSize EXCEPT ![a] = IF @ < minSize THEN minSize ELSE @]
  /\ UNCHANGED <<seqVars, topoVars, stackVars, histVars, ec2State, lifecycle, prepVars,
                 waitIn, waitLoc, ctxCancelled, predVars>>

(* ---------------------- two waits side by side ------------------------- *)
\* the call of WaitForOutput at hand: its arguments, its locals, the
\* caller's context and the lifecycle states its probes read
Frame ==
  [wkind |-> wkind, maxWaitDur |-> maxWaitDur, options |-> options, params |-> params,
   wpc |-> wpc, remainingTime |-> remainingTime, attempt |-> attempt, wout |-> wout,
   probes |-> probes, sleeps |-> sleeps, probeErr |-> probeErr, retryable |-> retryable,
   ctxCancelled |-> ctxCancelled, lifecycle |-> lifecycle]

\* the call f becomes the call at hand
SetFrame(f) ==
  /\ wkind' = f.wkind
  /\ maxWaitDur' = f.maxWaitDur
  /\ options' = f.options
  /\ params' = f.params
  /\ wpc' = f.wpc
  /\ remainingTime' = f.remainingTime
  /\ attempt' = f.attempt
  /\ wout' = f.wout
  /\ probes' = f.probes
  /\ sleeps' = f.sleeps
  /\ probeErr' = f.probeErr
  /\ retryable' = f.retryable
  /\ ctxCancelled' = f.ctxCancelled
  /\ lifecycle' = f.lifecycle

\* Standby and InService swapped, and so the states on the way to them
MirrorState(l) ==
  CASE l = "Standby" -> "InService"
    [] l = "InService" -> "Standby"
    [] l = "EnteringStandby" -> "Pending"
    [] l = "Pending" -> "EnteringStandby"

Mirror(lc) == [k \in DOMAIN lc |-> MirrorState(lc[k])]

\* the other of the two waiters
OtherWaiter(kind) == IF kind = "Standby" THEN "InService" ELSE "Standby"

\* any step of either waiter, or the cancellation of its context
WaitStep ==
  \/ StandbyWaitForOutput
  \/ StandbyProbe
  \/ StandbySleep
  \/ InServiceWaitForOutput
  \/ InServiceProbe
  \/ InServiceSleep
  \/ Cancel

\* the step of the wait at hand meets what the first wait met in its step
\* from before to after: the same cancellation, the same outcome of the
\* describe call with the lifecycle states swapped, the same answer of a
\* Retryable function of the caller, the same latency and the same delay
SameInputs(before, after) ==
  /\ ctxCancelled' = after.ctxCancelled
  /\ probeErr' = after.probeErr
  /\ lifecycle' = Mirror(after.lifecycle)
  /\ options.Retryable = "custom" => retryable' = after.retryable
  /\ (remainingTime' # remainingTime /\ after.remainingTime # before.remainingTime) =>
       remainingTime - remainingTime' = before.remainingTime - after.remainingTime

\* the first wait takes a step
FirstWait ==
  /\ twin.turn = "first" /\ Frame = twin.before
  /\ WaitStep

\* the first wait has taken its step: the second wait is at turn
SwitchToSecond ==
  /\ twin.turn = "first" /\ Frame # twin.before
  /\ twin' = [twin EXCEPT !.turn = "second", !.after = Frame]
  /\ SetFrame(twin.other)
  /\ UNCHANGED <<seqVars, topoVars, stackVars, minSizeAtStart, ec2State, asgMinSize,
                 asgMaxSize, prepVars, predVars>>

\* the second wait takes the same step
SecondWait ==
  /\ twin.turn = "second" /\ Frame = twin.other
  /\ WaitStep
  /\ SameInputs(twin.before, twin.after)

\* the second wait has taken its step: the first wait is at turn again
SwitchToFirst ==
  /\ twin.turn = "second" /\ Frame # twin.other
  /\ twin' = [turn |-> "first", before |-> twin.after, after |-> twin.after, other |-> Frame]
  /\ SetFrame(twin.after)
  /\ UNCHANGED <<seqVars, topoVars, stackVars, minSizeAtStart, ec2State, asgMinSize,
                 asgMaxSize, prepVars, predVars>>

(* --------------------------- specifications ---------------------------- *)
\* an instance at the start of a run: not there, up, or down in standby
InstanceStates == {"absent", "up", "down"}
\* MinSize, MaxSize of the ASGs at the start of a run
InitSizes == {<<0, 0>>, <<1, 1>>}

\* no second wait runs beside the one at hand
NoTwin == [turn |-> "none"]

\* no Retryable function is called on its own
PredInit ==
  /\ predKind = "none"
  /\ predOutput = <<>>
  /\ predErr = Nil
  /\ predResult = NotCalled

PrepInit ==
  /\ autoscalingInstances = [a \in Asgs |-> <<>>]
  /\ describeAutoScalingGroupsOutput = <<>>
  /\ gidx = 0
  /\ waitForInstanceIds = <<>>
  /\ prepErr = "-"

\* a startup or shutdown run of the command line tool
Init ==
  /\ command \in {"startup", "shutdown"}
  /\ dryRun \in BOOLEAN
  /\ i = 0
  /\ pc = "initStack"
  /\ group = [Name |-> -1, Instances |-> <<>>]
  /\ instanceIds = <<>>
  /\ err = Nil
  /\ exitCode = -1
  /\ reports = <<>>
  /\ calls = <<>>
  /\ stackFile = [Error |-> Nil, Stack |-> GoodStack, Spare |-> 0]
  /\ groupOf = [k \in Instances |-> (k - 1) % NGroups]
  /\ asgOf = [k \in Instances |-> k]
  /\ \E st \in [Instances -> InstanceStates] :
       /\ ec2State = [k \in Instances |->
                        CASE st[k] = "absent" -> "terminated"
                          [] st[k] = "up" -> "running"
                          [] st[k] = "down" -> "stopped"]
       /\ lifecycle = [k \in Instances |->
                         IF st[k] = "down" THEN LifecycleStateNameStandby
                         ELSE LifecycleStateNameInService]
  /\ \E sz \in InitSizes :
       /\ asgMinSize = [a \in Asgs |-> sz[1]]
       /\ asgMaxSize = [a \in Asgs |-> sz[2]]
  /\ PrepInit
  /\ wkind = "none"
  /\ wpc = "idle"
  /\ maxWaitDur = 0
  /\ options = [MinDelay |-> 0, MaxDelay |-> 0, Retryable |-> "default"]
  /\ params = <<>>
  /\ remainingTime = 0
  /\ attempt = 0
  /\ wout = WaitResult(NoOut, Nil)
  /\ probes = 0
  /\ sleeps = 0
  /\ probeErr = Nil
  /\ retryable = NotCalled
  /\ ctxCancelled = FALSE
  /\ PredInit
  /\ stack = ZeroStack
  /\ filters = <<>>
  /\ minSizeAtStart = asgMinSize
  /\ twin = NoTwin

Next ==
  \/ InitStack
  \/ InitAWS
  \/ ShutdownDescribeInstances
  \/ ShutdownDescribeAutoScalingInstances
  \/ ShutdownDescribeAutoScalingGroups
  \/ ShutdownUpdateMinSize
  \/ ShutdownEnterStandby
  \/ ShutdownStandbyWait
  \/ ShutdownStandbyWaitReturn
  \/ StopInstances
  \/ InstanceStoppedWait
  \/ StartupDescribeInstances
  \/ StartInstances
  \/ InstanceStatusOkWait
  \/ StartupDescribeAutoScalingInstances
  \/ StartupDescribeAutoScalingGroups
  \/ StartupUpdateMaxSize
  \/ StartupExitStandby
  \/ StartupInServiceWait
  \/ StartupInServiceWaitReturn
  \/ StartupUpdateMinSize
  \/ Execute
  \/ StandbyWaitForOutput
  \/ StandbyProbe
  \/ StandbySleep
  \/ InServiceWaitForOutput
  \/ InServiceProbe
  \/ InServiceSleep

Spec == Init /\ [][Next]_vars

\* a waiter called directly, with any policy and any describe input
InitWaiter ==
  /\ command = "none"
  /\ dryRun = FALSE
  /\ i = 0
  /\ pc = "waiter"
  /\ group = [Name |-> -1, Instances |-> <<>>]
  /\ instanceIds = <<>>
  /\ err = Nil
  /\ exitCode = -1
  /\ reports = <<>>
  /\ calls = <<>>
  /\ stackFile = [Error |-> Nil, Stack |-> GoodStack, Spare |-> 0]
  /\ groupOf = [k \in Instances |-> 0]
  /\ asgOf = [k \in Instances |-> k]
  /\ ec2State = [k \in Instances |-> "running"]
  /\ \E l \in {"InService", "Standby", "EnteringStandby", "Pending"} :
       lifecycle = [k \in Instances |-> l]
  /\ asgMinSize = [a \in Asgs |-> 0]
  /\ asgMaxSize = [a \in Asgs |-> 1]
  /\ PrepInit
  /\ wkind \in {"Standby", "InService"}
  /\ wpc = "call"
  /\ maxWaitDur \in -1 .. MaxWaitArg
  /\ options \in [MinDelay : 0 .. MaxDelayArg, MaxDelay : -1 .. MaxDelayArg,
                  Retryable : {"default", "custom"}]
  /\ params \in {<<1>>, <<1, 2>>}
  /\ remainingTime = 0
  /\ attempt = 0
  /\ wout = WaitResult(NoOut, Nil)
  /\ probes = 0
  /\ sleeps = 0
  /\ probeErr = Nil
  /\ retryable = NotCalled
  /\ ctxCancelled = FALSE
  /\ PredInit
  /\ stack = ZeroStack
  /\ filters = <<>>
  /\ minSizeAtStart = asgMinSize
  /\ twin = NoTwin

NextWaiter ==
  \/ StandbyWaitForOutput
  \/ StandbyProbe
  \/ StandbySleep
  \/ InServiceWaitForOutput
  \/ InServiceProbe
  \/ InServiceSleep
  \/ Cancel

SpecWaiter == InitWaiter /\ [][NextWaiter]_vars

\* how the instances are spread over stack groups and Auto Scaling groups:
\* one group and one ASG, one group and an ASG each, the first instance in
\* one group and the others in the next with one ASG for all
Topologies == {"one group, one ASG", "one group, many ASGs", "two groups, one ASG"}

\* MinSize, MaxSize of the ASGs at the start of a run of SpecPrepare
PrepareSizes == {<<m, m>> : m \in 0 .. MaxSize} \cup {<<0, MaxSize>>}

\* a startup or shutdown run over groups that share Auto Scaling groups or
\* hold several of them; the first instance is one the command acts on
InitPrepare ==
  /\ command \in {"startup", "shutdown"}
  /\ dryRun \in BOOLEAN
  /\ i = 0
  /\ pc = "initStack"
  /\ group = [Name |-> -1, Instances |-> <<>>]
  /\ instanceIds = <<>>
  /\ err = Nil
  /\ exitCode = -1
  /\ reports = <<>>
  /\ calls = <<>>
  /\ stackFile = [Error |-> Nil, Stack |-> GoodStack, Spare |-> 0]
  /\ \E t \in Topologies :
       /\ groupOf = [k \in Instances |->
                       IF t = "two groups, one ASG" /\ k > 1 THEN 1 ELSE 0]
       /\ asgOf = [k \in Instances |-> IF t = "one group, many ASGs" THEN k ELSE 1]
  /\ \E others \in {"up", "down"} :
       LET st == [k \in Instances |->
                    IF k = 1 THEN (IF command = "shutdown" THEN "up" ELSE "down")
                    ELSE others]
       IN /\ ec2State = [k \in Instances |-> IF st[k] = "up" THEN "running" ELSE "stopped"]
          /\ lifecycle = [k \in Instances |->
                            IF st[k] = "down" THEN LifecycleStateNameStandby
                            ELSE LifecycleStateNameInService]
  /\ \E sz \in PrepareSizes :
       /\ asgMinSize = [a \in Asgs |-> sz[1]]
       /\ asgMaxSize = [a \in Asgs |-> sz[2]]
  /\ PrepInit
  /\ wkind = "none"
  /\ wpc = "idle"
  /\ maxWaitDur = 0
  /\ options = [MinDelay |-> 0, MaxDelay |-> 0, Retryable |-> "default"]
  /\ params = <<>>
  /\ remainingTime = 0
  /\ attempt = 0
  /\ wout = WaitResult(NoOut, Nil)
  /\ probes = 0
  /\ sleeps = 0
  /\ probeErr = Nil
  /\ retryable = NotCalled
  /\ ctxCancelled = FALSE
  /\ PredInit
  /\ stack = ZeroStack
  /\ filters = <<>>
  /\ minSizeAtStart = asgMinSize
  /\ twin = NoTwin

SpecPrepare == InitPrepare /\ [][Next]_vars

\* any of the three commands on any stack file, in a region without instances
InitCommand ==
  /\ command \in {"startup", "shutdown", "validate"}
  /\ dryRun \in (IF command = "validate" THEN {FALSE} ELSE BOOLEAN)
  /\ i = 0
  /\ pc = "initStack"
  /\ group = [Name |-> -1, Instances |-> <<>>]
  /\ instanceIds = <<>>
  /\ err = Nil
  /\ exitCode = -1
  /\ reports = <<>>
  /\ calls = <<>>
  /\ stackFile \in StackFiles
  /\ groupOf = [k \in Instances |-> (k - 1) % NGroups]
  /\ asgOf = [k \in Instances |-> k]
  /\ ec2State = [k \in Instances |-> "terminated"]
  /\ lifecycle = [k \in Instances |-> LifecycleStateNameInService]
  /\ asgMinSize = [a \in Asgs |-> 0]
  /\ asgMaxSize = [a \in Asgs |-> 1]
  /\ PrepInit
  /\ wkind = "none"
  /\ wpc = "idle"
  /\ maxWaitDur = 0
  /\ options = [MinDelay |-> 0, MaxDelay |-> 0, Retryable |-> "default"]
  /\ params = <<>>
  /\ remainingTime = 0
  /\ attempt = 0
  /\ wout = WaitResult(NoOut, Nil)
  /\ probes = 0
  /\ sleeps = 0
  /\ probeErr = Nil
  /\ retryable = NotCalled
  /\ ctxCancelled = FALSE
  /\ PredInit
  /\ stack = ZeroStack
  /\ filters = <<>>
  /\ minSizeAtStart = asgMinSize
  /\ twin = NoTwin

NextCommand ==
  \/ InitStack
  \/ InitAWS
  \/ ShutdownDescribeInstances
  \/ StartupDescribeInstances
  \/ Execute

SpecCommand == InitCommand /\ [][NextCommand]_vars

\* a startup or shutdown run on a stack whose filter slice has any spare
\* capacity, over instances the command acts on
InitFilters ==
  /\ command \in {"startup", "shutdown"}
  /\ dryRun \in BOOLEAN
  /\ i = 0
  /\ pc = "initStack"
  /\ group = [Name |-> -1, Instances |-> <<>>]
  /\ instanceIds = <<>>
  /\ err = Nil
  /\ exitCode = -1
  /\ reports = <<>>
  /\ calls = <<>>
  /\ \E spare \in 0 .. MaxSpare :
       stackFile = [Error |-> Nil, Stack |-> GoodStack, Spare |-> spare]
  /\ groupOf = [k \in Instances |-> (k - 1) % NGroups]
  /\ asgOf = [k \in Instances |-> k]
  /\ ec2State = [k \in Instances |-> IF command = "shutdown" THEN "running" ELSE "stopped"]
  /\ lifecycle = [k \in Instances |->
                    IF command = "shutdown" THEN LifecycleStateNameInService
                    ELSE LifecycleStateNameStandby]
  /\ asgMinSize = [a \in Asgs |-> 1]
  /\ asgMaxSize = [a \in Asgs |-> 1]
  /\ PrepInit
  /\ wkind = "none"
  /\ wpc = "idle"
  /\ maxWaitDur = 0
  /\ options = [MinDelay |-> 0, MaxDelay |-> 0, Retryable |-> "default"]
  /\ params = <<>>
  /\ remainingTime = 0
  /\ attempt = 0
  /\ wout = WaitResult(NoOut, Nil)
  /\ probes = 0
  /\ sleeps = 0
  /\ probeErr = Nil
  /\ retryable = NotCalled
  /\ ctxCancelled = FALSE
  /\ PredInit
  /\ stack = ZeroStack
  /\ filters = <<>>
  /\ minSizeAtStart = asgMinSize
  /\ twin = NoTwin

SpecFilters == InitFilters /\ [][Next]_vars

\* PrepareInstanceGroupForShutdown is called on a group of n instances, all
\* InService members of one ASG of any MinSize, and nobody else acts
InitRoundTrip ==
  /\ command = "shutdown"
  /\ dryRun = FALSE
  /\ i = 0
  /\ pc = "PrepareInstanceGroupForShutdown"
  /\ err = Nil
  /\ exitCode = -1
  /\ reports = <<>>
  /\ calls = <<>>
  /\ stackFile = [Error |-> Nil, Stack |-> GoodStack, Spare |-> 0]
  /\ groupOf = [k \in Instances |-> 0]
  /\ \E n \in 1 .. NInst, m \in 0 .. (MaxSize + NInst) :
       /\ group = [Name |-> 0, Instances |-> [k \in 1 .. n |-> k]]
       /\ instanceIds = [k \in 1 .. n |-> k]
       /\ asgOf = [k \in Instances |-> IF k <= n THEN 1 ELSE NoAsg]
       /\ ec2State = [k \in Instances |-> IF k <= n THEN "running" ELSE "terminated"]
       /\ asgMinSize = [a \in Asgs |-> m]
       /\ asgMaxSize = [a \in Asgs |-> IF m > n THEN m ELSE n]
  /\ lifecycle = [k \in Instances |-> LifecycleStateNameInService]
  /\ PrepInit
  /\ wkind = "none"
  /\ wpc = "idle"
  /\ maxWaitDur = 0
  /\ options = [MinDelay |-> 0, MaxDelay |-> 0, Retryable |-> "default"]
  /\ params = <<>>
  /\ remainingTime = 0
  /\ attempt = 0
  /\ wout = WaitResult(NoOut, Nil)
  /\ probes = 0
  /\ sleeps = 0
  /\ probeErr = Nil
  /\ retryable = NotCalled
  /\ ctxCancelled = FALSE
  /\ PredInit
  /\ stack = ZeroStack
  /\ filters = <<>>
  /\ minSizeAtStart = asgMinSize
  /\ twin = NoTwin

\* PrepareInstanceGroupForShutdown has returned nil and the caller goes on
\* with PrepareInstanceGroupForStartup for the same group
RoundTripStartup ==
  /\ command = "shutdown" /\ pc = "StopInstances"
  /\ command' = "startup"
  /\ pc' = "PrepareInstanceGroupForStartup"
  /\ UNCHANGED <<dryRun, i, group, instanceIds, err, exitCode, reports, calls,
                 topoVars, stackVars, histVars, cloudVars, prepVars, waitIn, waitLoc,
                 ctxCancelled, predVars>>

NextRoundTrip ==
  \/ ShutdownDescribeAutoScalingInstances
  \/ ShutdownDescribeAutoScalingGroups
  \/ ShutdownUpdateMinSize
  \/ ShutdownEnterStandby
  \/ ShutdownStandbyWait
  \/ ShutdownStandbyWaitReturn
  \/ RoundTripStartup
  \/ StartupDescribeAutoScalingInstances
  \/ StartupDescribeAutoScalingGroups
  \/ StartupUpdateMaxSize
  \/ StartupExitStandby
  \/ StartupInServiceWait
  \/ StartupInServiceWaitReturn
  \/ StartupUpdateMinSize
  \/ StandbyWaitForOutput
  \/ StandbyProbe
  \/ StandbySleep
  \/ InServiceWaitForOutput
  \/ InServiceProbe
  \/ InServiceSleep

SpecRoundTrip == InitRoundTrip /\ [][NextRoundTrip]_vars

\* PrepareInstanceGroupForStartup is called on a group of n instances, all
\* Standby members of one ASG, while somebody else may change the ASG
InitExternal ==
  /\ command = "startup"
  /\ dryRun = FALSE
  /\ i = 0
  /\ pc = "PrepareInstanceGroupForStartup"
  /\ err = Nil
  /\ exitCode = -1
  /\ reports = <<>>
  /\ calls = <<>>
  /\ stackFile = [Error |-> Nil, Stack |-> GoodStack, Spare |-> 0]
  /\ groupOf = [k \in Instances |-> 0]
  /\ \E n \in 1 .. NInst, m \in 0 .. MaxSize :
       /\ group = [Name |-> 0, Instances |-> [k \in 1 .. n |-> k]]
       /\ instanceIds = [k \in 1 .. n |-> k]
       /\ asgOf = [k \in Instances |-> IF k <= n THEN 1 ELSE NoAsg]
       /\ ec2State = [k \in Instances |-> IF k <= n THEN "running" ELSE "terminated"]
       /\ asgMinSize = [a \in Asgs |-> m]
       /\ asgMaxSize = [a \in Asgs |-> IF m > n THEN m ELSE n]
  /\ lifecycle = [k \in Instances |-> LifecycleStateNameStandby]
  /\ PrepInit
  /\ wkind = "none"
  /\ wpc = "idle"
  /\ maxWaitDur = 0
  /\ options = [MinDelay |-> 0, MaxDelay |-> 0, Retryable |-> "default"]
  /\ params = <<>>
  /\ remainingTime = 0
  /\ attempt = 0
  /\ wout = WaitResult(NoOut, Nil)
  /\ probes = 0
  /\ sleeps = 0
  /\ probeErr = Nil
  /\ retryable = NotCalled
  /\ ctxCancelled = FALSE
  /\ PredInit
  /\ stack = ZeroStack
  /\ filters = <<>>
  /\ minSizeAtStart = asgMinSize
  /\ twin = NoTwin

NextExternal ==
  \/ StartupDescribeAutoScalingInstances
  \/ StartupDescribeAutoScalingGroups
  \/ StartupUpdateMaxSize
  \/ StartupExitStandby
  \/ StartupInServiceWait
  \/ StartupInServiceWaitReturn
  \/ StartupUpdateMinSize
  \/ InServiceWaitForOutput
  \/ InServiceProbe
  \/ InServiceSleep
  \/ ExternalUpdateAutoScalingGroup

SpecExternal == InitExternal /\ [][NextExternal]_vars

\* the two waiters are called with the same arguments and options, each on
\* instances in the state the other one starts from with the names swapped
InitTwin ==
  /\ command = "none"
  /\ dryRun = FALSE
  /\ i = 0
  /\ pc = "waiter"
  /\ group = [Name |-> -1, Instances |-> <<>>]
  /\ instanceIds = <<>>
  /\ err = Nil
  /\ exitCode = -1
  /\ reports = <<>>
  /\ calls = <<>>
  /\ stackFile = [Error |-> Nil, Stack |-> GoodStack, Spare |-> 0]
  /\ groupOf = [k \in Instances |-> 0]
  /\ asgOf = [k \in Instances |-> k]
  /\ ec2State = [k \in Instances |-> "running"]
  /\ \E l \in {"InService", "Standby", "EnteringStandby", "Pending"} :
       lifecycle = [k \in Instances |-> l]
  /\ asgMinSize = [a \in Asgs |-> 0]
  /\ asgMaxSize = [a \in Asgs |-> 1]
  /\ PrepInit
  /\ wkind \in {"Standby", "InService"}
  /\ wpc = "call"
  /\ maxWaitDur \in -1 .. MaxWaitArg
  /\ options \in [MinDelay : 0 .. MaxDelayArg, MaxDelay : -1 .. MaxDelayArg,
                  Retryable : {"default", "custom"}]
  /\ params \in {<<1>>, <<1, 2>>}
  /\ remainingTime = 0
  /\ attempt = 0
  /\ wout = WaitResult(NoOut, Nil)
  /\ probes = 0
  /\ sleeps = 0
  /\ probeErr = Nil
  /\ retryable = NotCalled
  /\ ctxCancelled = FALSE
  /\ PredInit
  /\ stack = ZeroStack
  /\ filters = <<>>
  /\ minSizeAtStart = asgMinSize
  /\ twin = [turn |-> "first", before |-> Frame, after |-> Frame,
             other |-> [Frame EXCEPT !.wkind = OtherWaiter(wkind),
                                     !.lifecycle = Mirror(lifecycle)]]

NextTwin ==
  \/ FirstWait
  \/ SwitchToSecond
  \/ SecondWait
  \/ SwitchToFirst

SpecTwin == InitTwin /\ [][NextTwin]_vars

\* lifecycle states a describe output may carry
LifecycleStateNames == {"InService", "Standby", "EnteringStandby", "Pending"}

\* the lists AutoScalingInstances[].LifecycleState of at most MaxLen instances
LifecycleLists == UNION {[1 .. n -> LifecycleStateNames] : n \in 0 .. MaxLen}

\* a Retryable function called on its own, with any output and error
InitPredicate ==
  /\ command = "none"
  /\ dryRun = FALSE
  /\ i = 0
  /\ pc = "predicate"
  /\ group = [Name |-> -1, Instances |-> <<>>]
  /\ instanceIds = <<>>
  /\ err = Nil
  /\ exitCode = -1
  /\ reports = <<>>
  /\ calls = <<>>
  /\ stackFile = [Error |-> Nil, Stack |-> GoodStack, Spare |-> 0]
  /\ groupOf = [k \in Instances |-> 0]
  /\ asgOf = [k \in Instances |-> k]
  /\ ec2State = [k \in Instances |-> "running"]
  /\ lifecycle = [k \in Instances |-> LifecycleStateNameInService]
  /\ asgMinSize = [a \in Asgs |-> 0]
  /\ asgMaxSize = [a \in Asgs |-> 1]
  /\ PrepInit
  /\ wkind = "none"
  /\ wpc = "idle"
  /\ maxWaitDur = 0
  /\ options = [MinDelay |-> 0, MaxDelay |-> 0, Retryable |-> "default"]
  /\ params = <<>>
  /\ remainingTime = 0
  /\ attempt = 0
  /\ wout = WaitResult(NoOut, Nil)
  /\ probes = 0
  /\ sleeps = 0
  /\ probeErr = Nil
  /\ retryable = NotCalled
  /\ ctxCancelled = FALSE
  /\ predKind \in {"Standby", "InService"}
  /\ predOutput \in LifecycleLists
  /\ predErr \in {Nil, "DescribeAutoScalingInstances failed"}
  /\ predResult = NotCalled
  /\ stack = ZeroStack
  /\ filters = <<>>
  /\ minSizeAtStart = asgMinSize
  /\ twin = NoTwin

CallStandbyStateRetryable ==
  /\ pc = "predicate" /\ predKind = "Standby" /\ predResult = NotCalled
  /\ predResult' = autoScalingInstanceStandbyStateRetryable(predOutput, predErr)
  /\ UNCHANGED <<seqVars, topoVars, stackVars, histVars, cloudVars, prepVars, waitIn, waitLoc, ctxCancelled,
                 predKind, predOutput, predErr>>

CallInServiceStateRetryable ==
  /\ pc = "predicate" /\ predKind = "InService" /\ predResult = NotCalled
  /\ predResult' = AutoScalingInstanceInServiceStateRetryable(predOutput, predErr)
  /\ UNCHANGED <<seqVars, topoVars, stackVars, histVars, cloudVars, prepVars, waitIn, waitLoc, ctxCancelled,
                 predKind, predOutput, predErr>>

NextPredicate ==
  \/ CallStandbyStateRetryable
  \/ CallInServiceStateRetryable

SpecPredicate == InitPredicate /\ [][NextPredicate]_vars

(* ------------------------------- claims -------------------------------- *)
IsRun == command \in {"startup", "shutdown"}

\* the DescribeInstances calls of the run, in the order they were issued
Visits == SelectSeq(calls, LAMBDA c : c.op = "DescribeInstances")

\* the group the n-th visit of the run must be for
ExpectedVisit(n) == IF command = "shutdown" THEN n - 1 ELSE NGroups - n

\* position in calls of some entry with operation op, group g and outcome ok
\* before position n
Earlier(n, op, g, ok) ==
  \E m \in 1 .. (n - 1) : calls[m].op = op /\ calls[m].g = g /\ calls[m].ok = ok

\* the entries of calls that are remote calls (not the return of Prepare*)
IsRemote(c) ==
  c.op \notin {"PrepareInstanceGroupForShutdown.return", "PrepareInstanceGroupForStartup.return"}

\* C1: a shutdown run visits the groups in declared order 0, 1, .., a startup
\* run in the reverse order NGroups-1, .., 0; no group is visited twice and
\* a run that returns no error has visited every group.
C1_VisitOrder ==
  IsRun =>
    /\ \A n \in 1 .. Len(Visits) : Visits[n].g = ExpectedVisit(n)
    /\ Len(Visits) <= NGroups
    /\ (pc = "exited" /\ err = Nil => Len(Visits) = NGroups)

C1_Witness ==
  /\ command = "startup" /\ pc = "exited" /\ err = Nil
  /\ Len(Visits) = NGroups /\ NGroups >= 2
  /\ Visits[1].g = NGroups - 1 /\ Visits[NGroups].g = 0

PrepareStartupOps == {"DescribeAutoScalingInstances", "DescribeAutoScalingGroups", "ExitStandby",
                      "UpdateAutoScalingGroup.MinSize", "UpdateAutoScalingGroup.MaxSize",
                      "PrepareInstanceGroupForStartup.return"}

C3_PrepareBeforeStop ==
  command = "shutdown" =>
    /\ \A n \in 1 .. Len(calls) :
         /\ calls[n].op = "StopInstances" =>
              /\ Earlier(n, "PrepareInstanceGroupForShutdown.return", calls[n].g, TRUE)
              /\ ~Earlier(n, "PrepareInstanceGroupForShutdown.return", calls[n].g, FALSE)
         /\ calls[n].op = "InstanceStoppedWait" =>
              Earlier(n, "StopInstances", calls[n].g, TRUE)
    /\ pc = "StopInstances" =>
         /\ prepErr = Nil
         /\ \A k \in Range(waitForInstanceIds) : lifecycle[k] = LifecycleStateNameStandby

C3_Witness ==
  /\ command = "shutdown"
  /\ waitForInstanceIds # <<>>
  /\ \E n \in 1 .. Len(calls) :
       /\ calls[n].op = "InstanceStoppedWait"
       /\ Earlier(n, "EnterStandby", calls[n].g, TRUE)

\* no remote call follows a failed step, and the run has returned an error
FailFast ==
  \A n \in 1 .. Len(calls) :
    ~calls[n].ok =>
      /\ \A m \in (n + 1) .. Len(calls) : ~IsRemote(calls[m])
      /\ pc \in {"returned", "exited"}
      /\ err # Nil

\* the completion reports exist only for groups all of whose steps succeeded
ReportsOnlyOnSuccess ==
  \A r \in 1 .. Len(reports) :
    /\ reports[r].msg = "group completed" =>
         ~\E n \in 1 .. Len(calls) : calls[n].g = reports[r].g /\ ~calls[n].ok
    /\ reports[r].msg = "stack completed" =>
         ~\E n \in 1 .. Len(calls) : ~calls[n].ok

\* C4: in a startup run an error at any step of a group, the capacity
\* controller operation included, aborts the run: no remote call follows, the
\* run returns an error, and the completion reports are produced only when
\* every step succeeded.
C4_StartupFailFast ==
  command = "startup" => FailFast /\ ReportsOnlyOnSuccess

\* C5: in a shutdown run an error at any step of a group aborts the run: no
\* remote call follows and the run returns the error.
C5_ShutdownFailFast ==
  command = "shutdown" => FailFast /\ ReportsOnlyOnSuccess

C5_Witness ==
  /\ command = "shutdown" /\ pc = "exited" /\ err = "EnterStandby failed"
  /\ i < NGroups - 1
  /\ calls[Len(calls)].op = "PrepareInstanceGroupForShutdown.return"

\* the last entry a group leaves in calls when all its steps have returned
GroupDone(c) ==
  \/ c.op = "DescribeInstances" /\ c.ok
  \/ c.op = "InstanceStoppedWait" /\ c.ok
  \/ c.op = "PrepareInstanceGroupForStartup.return"

\* C6: groups are processed one at a time: no call for another group is
\* issued before every step of the current group, the capacity controller
\* operation and the waits included, has returned.
C6_OneGroupAtATime ==
  IsRun =>
    /\ wpc # "idle" => pc \in {"PSD.wait", "PSU.wait"}
    /\ pc = "DescribeInstances" => wpc = "idle"
    /\ \A n \in 2 .. Len(calls) :
         calls[n].g # calls[n - 1].g =>
           /\ calls[n].op = "DescribeInstances"
           /\ GroupDone(calls[n - 1])
           /\ \A m \in 1 .. (n - 1) : calls[m].g # calls[n].g

C6_Witness ==
  /\ IsRun /\ ~dryRun
  /\ \E n \in 2 .. Len(calls) :
       /\ calls[n].g # calls[n - 1].g
       /\ calls[n - 1].op = "InstanceStoppedWait"
       /\ Earlier(n, "EnterStandby", calls[n - 1].g, TRUE)

\* no instance of group g is running or stopped
EmptyGroup(g) == \A k \in Instances : groupOf[k] = g => ec2State[k] = "terminated"

\* C7: for a group that resolves no instance no mutating call is issued, no
\* error is raised and the run goes on with the next group.
C7_EmptyGroupSkipped ==
  IsRun =>
    \A g \in Groups :
      EmptyGroup(g) =>
        /\ \A n \in 1 .. Len(calls) :
             calls[n].g = g =>
               /\ calls[n].op = "DescribeInstances"
               /\ calls[n].ok =>
                    IF n < Len(calls)
                    THEN /\ calls[n + 1].op = "DescribeInstances"
                         /\ calls[n + 1].g # g
                    ELSE \/ pc = "DescribeInstances"
                         \/ pc \in {"returned", "exited"} /\ err = Nil
        /\ \A r \in 1 .. Len(reports) : reports[r].g = g => reports[r].msg = "No instances"

C7_Witness ==
  /\ IsRun /\ ~dryRun
  /\ \E n \in 1 .. (Len(calls) - 1) :
       /\ EmptyGroup(calls[n].g) /\ calls[n].ok
       /\ calls[n + 1].op = "DescribeInstances"
       /\ ~EmptyGroup(calls[n + 1].g)

\* C8: a dry run issues no call but DescribeInstances, one per group in the
\* visiting order, and once it has described a group it returns no error when
\* every describe succeeds.
C8_DryRun ==
  IsRun /\ dryRun =>
    /\ \A n \in 1 .. Len(calls) :
         calls[n].op = "DescribeInstances" /\ calls[n].g = ExpectedVisit(n)
    /\ pc = "exited" /\ Len(calls) > 0 /\ (\A n \in 1 .. Len(calls) : calls[n].ok) =>
         err = Nil /\ Len(calls) = NGroups

C8_Witness ==
  /\ IsRun /\ dryRun /\ pc = "exited" /\ err = Nil
  /\ Len(calls) = NGroups
  /\ \A g \in Groups : ~EmptyGroup(g)

\* C9: when the run stops at an error, the step that fails and everything
\* after it issue no further successful call and leave the cloud as it is;
\* the process exits with status 1.
C9_NoRollback ==
  [][ (IsRun /\ pc' \in {"returned", "exited"} /\ err' # Nil) =>
        /\ cloudVars' = cloudVars
        /\ Len(calls') >= Len(calls)
        /\ SubSeq(calls', 1, Len(calls)) = calls
        /\ \A n \in (Len(calls) + 1) .. Len(calls') : ~calls'[n].ok
        /\ (pc' = "exited" => exitCode' = 1) ]_vars

C9_Witness ==
  /\ IsRun /\ pc = "exited" /\ err # Nil /\ exitCode = 1
  /\ \E r \in 1 .. Len(reports) : reports[r].msg = "group completed"
  /\ \E n \in 1 .. Len(calls) : calls[n].op \in {"EnterStandby", "ExitStandby"} /\ calls[n].ok

\* C10: WaitForOutput of either waiter called with maxWaitDur <= 0 returns
\* the "maximum wait time" error at once, without a probe and without a sleep.
C10_NonPositiveMaxWait ==
  pc = "waiter" /\ maxWaitDur <= 0 =>
    /\ wpc \in {"call", "done"}
    /\ probes = 0 /\ sleeps = 0
    /\ wpc = "done" =>
         wout = WaitResult(NoOut, "maximum wait time for waiter must be greater than zero")

C10_Witness ==
  /\ pc = "waiter" /\ wpc = "done" /\ maxWaitDur = 0
  /\ wkind = "Standby" /\ probes = 0

\* the errors WaitForOutput returns for a bad policy, before the loop
ConfigErrors ==
  {"maximum wait time for waiter must be greater than zero",
   "minimum waiter delay must be lesser than or equal to maximum waiter delay"}

\* C11 as stated: whenever the MinDelay a caller supplies is greater than the
\* MaxDelay it supplies, WaitForOutput returns a configuration error at once,
\* with no probe.
C11_MinAboveMaxRejected ==
  [][ (pc = "waiter" /\ wpc = "call" /\ options.MinDelay > options.MaxDelay) =>
        /\ wpc' = "done"
        /\ wout'.err \in ConfigErrors
        /\ probes' = 0 /\ sleeps' = 0 ]_vars

\* the MaxDelay in force: 120 seconds stand in for a supplied value <= 0
C11_MaxDelayInForce == IF options.MaxDelay <= 0 THEN DefaultMaxDelay ELSE options.MaxDelay

\* C11 amended: whenever the supplied MinDelay is greater than the MaxDelay
\* in force (the supplied one, or 120 seconds when the supplied one is <= 0),
\* WaitForOutput returns a configuration error at once, with no probe.
C11_MinAboveMaxInForceRejected ==
  [][ (pc = "waiter" /\ wpc = "call" /\ options.MinDelay > C11_MaxDelayInForce) =>
        /\ wpc' = "done"
        /\ wout'.err \in ConfigErrors
        /\ probes' = 0 /\ sleeps' = 0 ]_vars

C11_Witness ==
  /\ pc = "waiter" /\ wpc = "done" /\ maxWaitDur > 0
  /\ options.MaxDelay > 0 /\ options.MinDelay > options.MaxDelay
  /\ wout = WaitResult(NoOut, "minimum waiter delay must be lesser than or equal to maximum waiter delay")
  /\ probes = 0

TimeoutError ==
  IF wkind = "Standby"
  THEN "exceeded max wait time for AutoScalingInstanceStandby waiter"
  ELSE "exceeded max wait time for AutoScalingInstanceInService waiter"

\* time spent in probes and sleeps since WaitForOutput set remainingTime
Elapsed == maxWaitDur - remainingTime

\* C12: a wait with a valid policy (maxWaitDur > 0, MinDelay <= MaxDelay)
\* whose probes were all answered "retry", and which nobody cancelled, ends
\* with the "exceeded max wait time" error, no later than maxWaitDur plus one
\* probe latency plus one delay after it started.
C12_AlwaysRetryTimesOut ==
  (pc = "waiter" /\ wpc = "done" /\ probes > 0 /\ ~ctxCancelled /\ retryable = Retry) =>
    /\ wout.err = TimeoutError
    /\ Elapsed <= maxWaitDur + MaxLatency + options.MaxDelay

\* the state the Retryable function of kind k waits for
TargetState(k) ==
  IF k = "Standby" THEN LifecycleStateNameStandby ELSE LifecycleStateNameInService

\* C13: applied to a successful describe result, the lifecycle predicate for
\* target state T answers success exactly when the list of lifecycle states is
\* not empty and every state is T; otherwise it answers retry; it never
\* answers with an error.
C13_PredicateMatch ==
  (pc = "predicate" /\ predResult # NotCalled /\ predErr = Nil) =>
    LET allTarget == /\ Len(predOutput) > 0
                     /\ \A n \in 1 .. Len(predOutput) : predOutput[n] = TargetState(predKind)
    IN /\ predResult.err = Nil
       /\ predResult.retryable = ~allTarget

C13_Witness ==
  /\ pc = "predicate" /\ predKind = "InService" /\ predErr = Nil
  /\ predOutput = <<LifecycleStateNameInService, LifecycleStateNameInService>>
  /\ predResult # NotCalled /\ predResult.retryable = FALSE /\ predResult.err = Nil

\* the call the step at hand issues (the entry it adds to calls first)
NewCall == calls'[Len(calls) + 1]

\* the step at hand issues the remote call op
Issues(op) == Len(calls') > Len(calls) /\ NewCall.op = op

\* instances of the current group that Auto Scaling group a holds in state st
InGroupInState(a, st) ==
  Cardinality({k \in Range(group.Instances) :
                 asgOf[k] = a /\ ec2State[k] # "terminated" /\ lifecycle[k] = st})

\* C14: in a shutdown run a MinSize update is issued for an ASG only when its
\* MinSize m is > 0 (none when m = 0), and with N InService instances of the
\* group in the ASG the value sent is m - N when that is positive and 0
\* otherwise, never a negative one; a successful update sets the ASG's MinSize
\* to that value.
C14_ShutdownMinSize ==
  [][ (command = "shutdown" /\ Issues("UpdateAutoScalingGroup.MinSize")) =>
        LET a == NewCall.asg
            m == asgMinSize[a]
            N == InGroupInState(a, LifecycleStateNameInService)
        IN /\ m > 0
           /\ N > 0
           /\ NewCall.val = (IF m - N > 0 THEN m - N ELSE 0)
           /\ NewCall.val >= 0
           /\ asgMinSize'[a] = (IF NewCall.ok THEN NewCall.val ELSE m) ]_vars

\* a MinSize of 2 was lowered to 1 for the one instance put into standby
C14_Witness ==
  /\ command = "shutdown"
  /\ \E n \in 1 .. Len(calls) :
       /\ calls[n].op = "UpdateAutoScalingGroup.MinSize" /\ calls[n].ok
       /\ calls[n].val = 1
       /\ asgMinSize[calls[n].asg] = 1

\* C15: in a shutdown run, when EnterStandby is issued for an ASG, either the
\* call just before it is the successful MinSize update of that ASG for the
\* same group, or the ASG's MinSize is 0 and no update was issued for it; it
\* is never issued for an ASG whose MinSize update failed.
C15_MinSizeBeforeEnterStandby ==
  [][ (command = "shutdown" /\ Issues("EnterStandby")) =>
        LET a == NewCall.asg
            updates == {n \in 1 .. Len(calls) :
                          /\ calls[n].op = "UpdateAutoScalingGroup.MinSize"
                          /\ calls[n].asg = a /\ calls[n].g = NewCall.g}
        IN /\ \A n \in updates : calls[n].ok
           /\ IF updates # {}
              THEN updates = {Len(calls)}
              ELSE asgMinSize[a] = 0 ]_vars

C15_Witness ==
  /\ command = "shutdown"
  /\ \E n \in 2 .. Len(calls) :
       /\ calls[n].op = "EnterStandby" /\ calls[n].ok
       /\ calls[n - 1].op = "UpdateAutoScalingGroup.MinSize" /\ calls[n - 1].ok
       /\ calls[n - 1].asg = calls[n].asg

\* the members of Auto Scaling group a, those in Standby included
FullMemberCount(a) ==
  Cardinality({k \in Instances : asgOf[k] = a /\ ec2State[k] # "terminated"})

\* C16: in a startup run a MaxSize update is issued for an ASG only when its
\* MaxSize is below its full member count, with exactly that count as the new
\* value (so MaxSize is never lowered); when ExitStandby is issued for an ASG,
\* either the call just before it is the successful MaxSize update of that ASG
\* for the same group, or MaxSize is not below the member count and no update
\* was issued; it is never issued after a failed update.
C16_MaxSizeBeforeExitStandby ==
  [][ /\ (command = "startup" /\ Issues("UpdateAutoScalingGroup.MaxSize")) =>
           LET a == NewCall.asg
           IN /\ asgMaxSize[a] < FullMemberCount(a)
              /\ NewCall.val = FullMemberCount(a)
              /\ asgMaxSize'[a] = (IF NewCall.ok THEN NewCall.val ELSE asgMaxSize[a])
              /\ asgMaxSize'[a] >= asgMaxSize[a]
      /\ (command = "startup" /\ Issues("ExitStandby")) =>
           LET a == NewCall.asg
               updates == {n \in 1 .. Len(calls) :
                             /\ calls[n].op = "UpdateAutoScalingGroup.MaxSize"
                             /\ calls[n].asg = a /\ calls[n].g = NewCall.g}
           IN /\ \A n \in updates : calls[n].ok
              /\ IF updates # {}
                 THEN updates = {Len(calls)}
                 ELSE asgMaxSize[a] >= FullMemberCount(a) ]_vars

C16_Witness ==
  /\ command = "startup"
  /\ \E n \in 2 .. Len(calls) :
       /\ calls[n].op = "ExitStandby" /\ calls[n].ok
       /\ calls[n - 1].op = "UpdateAutoScalingGroup.MaxSize" /\ calls[n - 1].ok
       /\ calls[n - 1].asg = calls[n].asg
       /\ calls[n - 1].val = 2 /\ Len(calls[n].ids) = 1

\* the successful ExitStandby entries of calls for group g and ASG a
ExitsOf(g, a) ==
  {n \in 1 .. Len(calls) :
     calls[n].op = "ExitStandby" /\ calls[n].ok /\ calls[n].g = g /\ calls[n].asg = a}

\* C17: in a startup run a MinSize update is issued for an ASG only when
\* every instance taken out of standby for the group is InService (the
\* in-service wait has returned success), only when the ASG's MinSize is below
\* the number N of its instances returned to service, and with the value N; a
\* capacity controller operation that returned the wait's timeout error has
\* issued no MinSize update.
C17_MinSizeAfterInService ==
  [][ /\ (command = "startup" /\ Issues("UpdateAutoScalingGroup.MinSize")) =>
           LET a == NewCall.asg
               g == NewCall.g
           IN /\ pc = "PSU.minloop"
              /\ \E n \in ExitsOf(g, a) :
                   /\ NewCall.val = Len(calls[n].ids)
                   /\ asgMinSize[a] < Len(calls[n].ids)
              /\ \A b \in Asgs : \A n \in ExitsOf(g, b) :
                   \A k \in Range(calls[n].ids) : lifecycle[k] = LifecycleStateNameInService
              /\ asgMinSize'[a] = (IF NewCall.ok THEN NewCall.val ELSE asgMinSize[a])
      /\ (command' = "startup" /\ prepErr' = "exceeded max wait time for AutoScalingInstanceInService waiter") =>
           ~\E n \in 1 .. Len(calls') :
              /\ calls'[n].op = "UpdateAutoScalingGroup.MinSize"
              /\ calls'[n].g = group'.Name ]_vars

C17_Witness ==
  /\ command = "startup"
  /\ \E n \in 1 .. Len(calls) :
       /\ calls[n].op = "UpdateAutoScalingGroup.MinSize" /\ calls[n].ok
       /\ calls[n].val = 2
       /\ \E m \in ExitsOf(calls[n].g, calls[n].asg) : m < n /\ Len(calls[m].ids) = 2

PrepareMutatingOps == {"UpdateAutoScalingGroup.MinSize", "UpdateAutoScalingGroup.MaxSize",
                       "EnterStandby", "ExitStandby"}

PrepareReturns == {"PrepareInstanceGroupForShutdown.return", "PrepareInstanceGroupForStartup.return"}

\* the error a failed call of operation op yields
ErrorOf(op) ==
  CASE op = "EnterStandby" -> "EnterStandby failed"
    [] op = "ExitStandby" -> "ExitStandby failed"
    [] OTHER -> "UpdateAutoScalingGroup failed"

\* C18: when a mutating call of PrepareInstanceGroupForShutdown or
\* PrepareInstanceGroupForStartup fails, the operation returns that error at
\* once: the next entry of calls is its failed return, no call for the same
\* group (for a later ASG, or reverting an ASG already adjusted) follows, and
\* no wait is running when it has returned.
C18_MutationFailureReturns ==
  IsRun =>
    \A n \in 1 .. Len(calls) :
      (calls[n].op \in PrepareMutatingOps /\ ~calls[n].ok) =>
        /\ n < Len(calls)
        /\ calls[n + 1].op \in PrepareReturns
        /\ calls[n + 1].g = calls[n].g /\ ~calls[n + 1].ok
        /\ \A m \in (n + 2) .. Len(calls) : calls[m].g # calls[n].g
        /\ n + 1 = Len(calls) =>
             /\ prepErr = ErrorOf(calls[n].op)
             /\ wkind = "none" /\ wpc = "idle"
             /\ pc \notin {"PSD.wait", "PSU.wait"}

\* the call for the second ASG of a group fails after the first ASG was
\* put into standby
C18_Witness ==
  /\ command = "shutdown"
  /\ \E n \in 1 .. Len(calls) : \E m \in (n + 1) .. (Len(calls) - 1) :
       /\ calls[n].op = "EnterStandby" /\ calls[n].ok
       /\ calls[m].op \in PrepareMutatingOps /\ ~calls[m].ok
       /\ calls[m].g = calls[n].g /\ calls[m].asg # calls[n].asg
       /\ calls[m + 1].op = "PrepareInstanceGroupForShutdown.return"
       /\ lifecycle[calls[n].ids[1]] = "EnteringStandby"

\* C19: when a capacity controller operation has returned, with success or
\* with an error, every ASG whose size bound it changed has also had its
\* EnterStandby / ExitStandby applied by that operation: no ASG is left with
\* the size bound changed and the standby transition not applied.
C19_AllOrNothingPerAsg ==
  IsRun =>
    \A n \in 1 .. Len(calls) :
      calls[n].op \in PrepareReturns =>
        \A m \in 1 .. (n - 1) :
          (/\ calls[m].g = calls[n].g
           /\ calls[m].op \in {"UpdateAutoScalingGroup.MinSize", "UpdateAutoScalingGroup.MaxSize"}
           /\ calls[m].ok) =>
            \E k \in 1 .. (n - 1) :
              /\ calls[k].g = calls[n].g /\ calls[k].asg = calls[m].asg
              /\ calls[k].op \in {"EnterStandby", "ExitStandby"} /\ calls[k].ok

\* C20: a failing remote call is never retried. A describe or mutate call
\* that returns an error makes the run return an error in the same step, and
\* a probe of a lifecycle wait that returns an error makes WaitForOutput
\* return that error at once, without another probe.
C20_FailedCallNotRetried ==
  [][ /\ (Len(calls') > Len(calls) /\ ~NewCall.ok) =>
           pc' = "returned" /\ err' # Nil
      /\ (probes' = probes + 1 /\ probeErr' # Nil) =>
           wpc' = "done" /\ wout'.err = probeErr' ]_vars

CancelError == "request cancelled while waiting"

\* the tracked budget is spent: the test that leaves the loop of WaitForOutput
BudgetSpent == remainingTime < options.MinDelay \/ remainingTime <= 0

C22_CancelEndsWithCancelError ==
  [][ (pc = "waiter" /\ ctxCancelled /\ options.Retryable = "default"
       /\ options.MinDelay > 0) =>
        /\ (wpc # "done" /\ wpc' = "done") => wout'.err = CancelError
        /\ (sleeps' = sleeps + 1) => (wpc' = "done" /\ wout'.err = CancelError) ]_vars

\* a step of the loop of WaitForOutput in which a probe was made
ProbeStep == pc = "waiter" /\ probes' = probes + 1

\* a step of the loop of WaitForOutput in which SleepWithContext was called
SleepStep == pc = "waiter" /\ sleeps' = sleeps + 1

\* C25: when the Retryable function returns an error for a probe,
\* WaitForOutput returns that error in the same step, whatever budget
\* remains, and no probe and no sleep follows it.
C25_PredicateErrorReturned ==
  [][ /\ (ProbeStep /\ retryable'.err # Nil) =>
           /\ wpc' = "done"
           /\ wout' = WaitResult(NoOut, retryable'.err)
           /\ sleeps' = sleeps
      /\ (pc = "waiter" /\ wpc = "done" /\ retryable = Failure) =>
           (probes' = probes /\ sleeps' = sleeps /\ wout' = wout) ]_vars

\* the second probe of a wait was answered with a failure state while budget
\* for another turn of the loop was left
C25_Witness ==
  /\ pc = "waiter" /\ wpc = "done" /\ retryable = Failure
  /\ wout.err = Failure.err
  /\ probes = 2 /\ sleeps = 1
  /\ remainingTime > options.MinDelay + MaxLatency
\* the output of the probe made in this step, as the describe call returned it
ProbeOutput == IF probeErr' = Nil THEN LifecycleStates(params, lifecycle') ELSE NoOut

\* C26: when the Retryable function answers success for a probe,
\* WaitForOutput returns the output of that probe and no error in the same
\* step, without a sleep and without a later probe, also when the probe used
\* up all the budget that was left.
C26_SuccessReturnsProbeOutput ==
  [][ /\ (ProbeStep /\ retryable' = Success) =>
           /\ wpc' = "done"
           /\ wout' = WaitResult(ProbeOutput, Nil)
           /\ sleeps' = sleeps
      /\ (pc = "waiter" /\ wpc = "done" /\ retryable = Success) =>
           (probes' = probes /\ sleeps' = sleeps /\ wout' = wout) ]_vars

\* the service defined Retryable function matched on a later probe that
\* started with 15 s of budget and took at least as long
C26_Witness ==
  /\ pc = "waiter" /\ wpc = "done" /\ retryable = Success
  /\ options.Retryable = "default"
  /\ wout.err = Nil /\ Len(wout.out) = 2
  /\ probes > 1
  /\ remainingTime = 1 /\ options.MinDelay = 1

\* C27: a probe answered "retry" takes its elapsed time off the remaining
\* budget; when the budget is then below MinDelay or not positive the wait
\* ends in that step with the timeout error and without a sleep, otherwise a
\* sleep is due; a sleep is only started with a budget of at least MinDelay.
C27_BudgetTestAfterRetry ==
  [][ /\ (ProbeStep /\ retryable' = Retry) =>
           /\ remainingTime - remainingTime' \in Latencies
           /\ sleeps' = sleeps
           /\ IF remainingTime' < options.MinDelay \/ remainingTime' <= 0
              THEN wpc' = "done" /\ wout' = WaitResult(NoOut, TimeoutError)
              ELSE wpc' = "sleep" /\ wout' = wout
      /\ (pc = "waiter" /\ wpc = "done" /\ wout.err = TimeoutError) =>
           (probes' = probes /\ sleeps' = sleeps)
      /\ SleepStep =>
           (remainingTime >= options.MinDelay /\ remainingTime > 0) ]_vars

\* a wait that slept once and then timed out with budget left, but less than
\* MinDelay
C27_Witness ==
  /\ pc = "waiter" /\ wpc = "done" /\ wout.err = TimeoutError
  /\ sleeps = 1 /\ probes = 2
  /\ remainingTime > 0 /\ remainingTime < options.MinDelay

\* C28: every delay the waiter sleeps for is at least MinDelay, at most
\* MaxDelay and at most the budget left when it is computed, so the budget is
\* not negative after the delay is taken off and the sleeps of a wait add up
\* to no more than maxWaitDur.
C28_DelayWithinBounds ==
  [][ SleepStep =>
        LET delay == remainingTime - remainingTime'
        IN /\ delay >= options.MinDelay
           /\ delay <= options.MaxDelay
           /\ delay <= remainingTime
           /\ remainingTime' >= 0
           /\ Elapsed' <= maxWaitDur ]_vars

\* the instances of the EnterStandby calls issued for the current group
EnteredStandby ==
  UNION {Range(calls[n].ids) :
           n \in {m \in 1 .. Len(calls) :
                    calls[m].op = "EnterStandby" /\ calls[m].g = group.Name}}

\* C23: PrepareInstanceGroupForShutdown that has issued an EnterStandby call
\* returns success only from a standby wait that ended without error on a
\* probe of exactly the instances of its EnterStandby calls, all of them
\* reported (and being) Standby; when that wait ends with the timeout error
\* it returns the error, RunE returns it, and StopInstances is not issued for
\* the group.
C23_StandbyBeforeSuccess ==
  [][ /\ (command = "shutdown" /\ Issues("PrepareInstanceGroupForShutdown.return")
          /\ EnteredStandby # {}) =>
           /\ NewCall.ok =>
                /\ wkind = "Standby" /\ wpc = "done" /\ wout.err = Nil
                /\ Range(params) = EnteredStandby
                /\ Len(params) = Cardinality(EnteredStandby)
                /\ Len(wout.out) = Len(params)
                /\ \A n \in 1 .. Len(wout.out) : wout.out[n] = LifecycleStateNameStandby
                /\ \A k \in EnteredStandby : lifecycle[k] = LifecycleStateNameStandby
           /\ (wkind = "Standby" /\ wout.err = TimeoutError) =>
                /\ ~NewCall.ok
                /\ pc' = "returned" /\ err' = TimeoutError
      /\ (command = "shutdown" /\ Issues("StopInstances")) =>
           /\ calls[Len(calls)].op = "PrepareInstanceGroupForShutdown.return"
           /\ calls[Len(calls)].g = NewCall.g
           /\ calls[Len(calls)].ok ]_vars

\* success after two instances of one group, in two Auto Scaling groups, were
\* put into standby and both were probed Standby
C23_Witness ==
  /\ command = "shutdown" /\ Len(calls) > 0
  /\ calls[Len(calls)].op = "PrepareInstanceGroupForShutdown.return"
  /\ calls[Len(calls)].ok
  /\ Cardinality(EnteredStandby) = 2
  /\ \E n, m \in 1 .. Len(calls) :
       /\ calls[n].op = "EnterStandby" /\ calls[m].op = "EnterStandby"
       /\ calls[n].asg # calls[m].asg
  /\ \A k \in EnteredStandby : lifecycle[k] = LifecycleStateNameStandby

\* instances of the current group that the Auto Scaling service lists for
\* Auto Scaling group a in lifecycle state st
GroupInstancesIn(a, st) ==
  {k \in Range(group.Instances) :
     asgOf[k] = a /\ ec2State[k] # "terminated" /\ lifecycle[k] = st}

\* the step at hand is the successful first describe of
\* PrepareInstanceGroupFor* and finds no instance of the group in state st
DescribesNoneIn(st) ==
  /\ pc \in {"PrepareInstanceGroupForShutdown", "PrepareInstanceGroupForStartup"}
  /\ Issues("DescribeAutoScalingInstances") /\ NewCall.ok
  /\ \A a \in Asgs : GroupInstancesIn(a, st) = {}

\* the step at hand issues nothing but the describe, changes nothing in the
\* cloud and returns nil from PrepareInstanceGroupFor*
ReturnsNilUntouched ==
  /\ Len(calls') = Len(calls) + 2
  /\ calls'[Len(calls')].op \in PrepareReturns /\ calls'[Len(calls')].ok
  /\ prepErr' = Nil
  /\ UNCHANGED cloudVars

\* C29: in a shutdown run every EnterStandby call names one Auto Scaling
\* group and carries exactly the instances of the current group that the
\* group's describe listed as InService in that ASG, never an empty list, with
\* ShouldDecrementDesiredCapacity set; when the describe lists no InService
\* instance, PrepareInstanceGroupForShutdown returns nil without any
\* mutating call.
C29_EnterStandbyOnlyInService ==
  [][ /\ (command = "shutdown" /\ Issues("EnterStandby")) =>
           /\ Range(NewCall.ids) = GroupInstancesIn(NewCall.asg, LifecycleStateNameInService)
           /\ Len(NewCall.ids) = Cardinality(Range(NewCall.ids))
           /\ NewCall.ids # <<>>
           /\ NewCall.val = 1
      /\ (command = "shutdown" /\ DescribesNoneIn(LifecycleStateNameInService)) =>
           ReturnsNilUntouched ]_vars

\* of two instances of a group in one ASG only the InService one was put into
\* standby
C29_Witness ==
  /\ command = "shutdown"
  /\ Len(group.Instances) = 2
  /\ asgOf[1] = asgOf[2]
  /\ \E n \in 1 .. Len(calls) :
       /\ calls[n].op = "EnterStandby" /\ calls[n].ok
       /\ calls[n].g = group.Name
       /\ calls[n].ids = <<1>>
  /\ lifecycle[2] = LifecycleStateNameStandby

\* C30: in a startup run every ExitStandby call names one Auto Scaling group
\* and carries exactly the instances of the current group that the group's
\* describe listed as Standby in that ASG, never an empty list; when the
\* describe lists no Standby instance, PrepareInstanceGroupForStartup returns
\* nil without a MaxSize, ExitStandby or MinSize call.
C30_ExitStandbyOnlyStandby ==
  [][ /\ (command = "startup" /\ Issues("ExitStandby")) =>
           /\ Range(NewCall.ids) = GroupInstancesIn(NewCall.asg, LifecycleStateNameStandby)
           /\ Len(NewCall.ids) = Cardinality(Range(NewCall.ids))
           /\ NewCall.ids # <<>>
      /\ (command = "startup" /\ DescribesNoneIn(LifecycleStateNameStandby)) =>
           ReturnsNilUntouched
      /\ (command = "startup" /\ Len(calls') > Len(calls)
          /\ NewCall.op \in {"UpdateAutoScalingGroup.MaxSize", "UpdateAutoScalingGroup.MinSize"}) =>
           autoscalingInstances[NewCall.asg] # <<>> ]_vars

\* of two instances of a group in one ASG only the one in Standby was
\* returned to service
C30_Witness ==
  /\ command = "startup"
  /\ Len(group.Instances) = 2
  /\ asgOf[1] = asgOf[2]
  /\ \E n \in 1 .. Len(calls) :
       /\ calls[n].op = "ExitStandby" /\ calls[n].ok
       /\ calls[n].g = group.Name
       /\ calls[n].ids = <<1>>
  /\ lifecycle[2] = LifecycleStateNameInService

\* the stack file is a readable document for a stack with a defect
DefectiveStackFile == stackFile.Error = Nil /\ stackFile.Stack \in DefectiveStacks

\* C24: when the stack of the file fails validation (no groups, no or an empty
\* stack or group name, no filters, a filter without name or values), the
\* startup, shutdown and validate commands return an error from their first
\* step, initStack, which is not run again; no remote call is made before or
\* after it, and the process exits with status 1.
C24_ValidationBeforeRemote ==
  [][ DefectiveStackFile =>
        /\ calls' = <<>>
        /\ pc = "initStack" => (pc' = "returned" /\ err' = "stack validation failed")
        /\ pc' \in {"returned", "exited"}
        /\ pc' = "exited" => exitCode' = 1 ]_vars

\* a startup run on a stack whose last group has a filter without values has
\* exited with status 1 and without a remote call
C24_Witness ==
  /\ command = "startup" /\ pc = "exited" /\ exitCode = 1
  /\ stackFile.Error = Nil
  /\ stackFile.Stack = [GoodStack EXCEPT !.Groups[NGroups].Filters =
                                           <<[GoodFilter EXCEPT !.Values = <<>>]>>]
  /\ err = "stack validation failed"
  /\ calls = <<>>

\* the successful size updates of the startup run for ASG a
SizeUpdatesOf(a, op) ==
  {n \in 1 .. Len(calls) : calls[n].op = op /\ calls[n].asg = a /\ calls[n].ok}

\* C33: in a startup run over ASGs that begin with MinSize <= MaxSize and
\* that nobody else changes, MinSize <= MaxSize holds for every ASG in every
\* state PrepareInstanceGroupForStartup passes through and after it returns,
\* and MinSize never exceeds the member count the MaxSize was raised to.
C33_MinAtMostMax ==
  command = "startup" =>
    \A a \in Asgs :
      /\ asgMinSize[a] <= asgMaxSize[a]
      /\ SizeUpdatesOf(a, "UpdateAutoScalingGroup.MinSize") # {} =>
           asgMinSize[a] <= MemberCount(a)

\* an ASG of several instances has had both bounds raised to its member
\* count
C33_Witness ==
  /\ command = "startup" /\ prepErr = Nil
  /\ \E a \in Asgs :
       /\ MemberCount(a) >= 2
       /\ asgMinSize[a] = MemberCount(a) /\ asgMaxSize[a] = MemberCount(a)
       /\ \E n \in SizeUpdatesOf(a, "UpdateAutoScalingGroup.MaxSize") :
          \E m \in SizeUpdatesOf(a, "UpdateAutoScalingGroup.MinSize") :
            n < m /\ calls[n].val = MemberCount(a) /\ calls[m].val = MemberCount(a)

\* the step makes PrepareInstanceGroupForShutdown return success
ShutdownReturnsNil ==
  /\ command = "shutdown" /\ Len(calls') > Len(calls)
  /\ calls'[Len(calls')].op = "PrepareInstanceGroupForShutdown.return"
  /\ calls'[Len(calls')].ok

\* the EnterStandby entries of calls' for the group at hand that name k
EnterStandbysFor(k) ==
  {n \in 1 .. Len(calls') :
     /\ calls'[n].op = "EnterStandby" /\ calls'[n].g = group'.Name
     /\ k \in Range(calls'[n].ids)}

\* C36: whenever PrepareInstanceGroupForShutdown returns success, every
\* eligible (InService) instance it found for the group was named in exactly
\* one EnterStandby call and in the input of the standby wait, whatever the
\* describe-groups call answered.
C36_EveryEligibleEntersStandby ==
  [][ ShutdownReturnsNil =>
        \A a \in Asgs : \A k \in Range(autoscalingInstances'[a]) :
          /\ Cardinality(EnterStandbysFor(k)) = 1
          /\ k \in Range(waitForInstanceIds') ]_vars

\* the filters the stack document declares for the query of group g
DeclaredFilters(g) ==
  stackFile.Stack.Filters \o stackFile.Stack.Groups[g + 1].Filters \o <<StateFilter>>

\* the running and stopped instances that carry the tag of group g
OwnInstances(g) ==
  SeqOf({k \in Instances : groupOf[k] = g /\ ec2State[k] \in {"running", "stopped"}})

\* the calls a run makes with the instances of the group at hand
GroupWideOps == {"StartInstances", "StopInstances", "InstanceStatusOkWait",
                 "InstanceStoppedWait", "DescribeAutoScalingInstances"}

\* C32: no data leaks between groups. The query of group k is made with the
\* stack filters, then group k's own filters, then the instance-state filter;
\* the instances it resolves are those of group k; every mutate and wait call
\* for group k names the instances group k's own describe resolved; and the
\* filters and groups of the stack are what the document declared, at every
\* moment after it was loaded.
C32_NoLeakBetweenGroups ==
  [][ /\ (IsRun /\ Issues("DescribeInstances")) =>
           /\ filters' = DeclaredFilters(NewCall.g)
           /\ NewCall.ok => group' = [Name |-> NewCall.g, Instances |-> OwnInstances(NewCall.g)]
      /\ (IsRun /\ Len(calls') > Len(calls) /\ NewCall.op \in GroupWideOps) =>
           /\ NewCall.g = group.Name
           /\ NewCall.ids = group.Instances
           /\ \A k \in Range(NewCall.ids) : groupOf[k] = NewCall.g
      /\ (IsRun /\ Len(calls') > Len(calls) /\ NewCall.op \in {"EnterStandby", "ExitStandby"}) =>
           /\ NewCall.g = group.Name
           /\ Range(NewCall.ids) \subseteq Range(group.Instances)
      /\ (IsRun /\ wpc' = "call") => Range(params') \subseteq Range(group.Instances)
      /\ (IsRun /\ pc' # "initStack") =>
           /\ Elements(stack'.Filters) = stackFile.Stack.Filters
           /\ stack'.Groups = Unmarshal(stackFile).Groups ]_vars

\* a run that went through every group, mutating and waiting, while the
\* appends wrote the filters of the groups into the array of stack.Filters
C32_Witness ==
  /\ IsRun /\ ~dryRun /\ pc = "exited" /\ err = Nil
  /\ stackFile.Spare >= 1
  /\ stack.Filters.array # Unmarshal(stackFile).Filters.array
  /\ \A g \in Groups :
       \E n \in 1 .. Len(calls) :
         /\ calls[n].g = g /\ calls[n].ok /\ calls[n].ids # <<>>
         /\ calls[n].op \in {"EnterStandby", "ExitStandby"}

\* PrepareInstanceGroupForStartup has returned success after both operations
\* moved every instance of the group: the round trip is complete
RoundTripDone ==
  /\ command = "startup" /\ Len(calls) > 0
  /\ calls[Len(calls)].op = "PrepareInstanceGroupForStartup.return" /\ calls[Len(calls)].ok
  /\ \E n \in 1 .. Len(calls) :
       calls[n].op = "EnterStandby" /\ calls[n].ok /\ calls[n].ids = group.Instances
  /\ \E n \in 1 .. Len(calls) :
       calls[n].op = "ExitStandby" /\ calls[n].ok /\ calls[n].ids = group.Instances

\* the ASG of the round trip: the one the group's first instance belongs to
RoundTripAsg == asgOf[1]

\* C35 as stated: after PrepareInstanceGroupForShutdown and then
\* PrepareInstanceGroupForStartup on the N InService instances of an ASG with
\* MinSize m, nobody else acting, the MinSize of the ASG is m again.
C35_RoundTripRestoresMinSize ==
  RoundTripDone => asgMinSize[RoundTripAsg] = minSizeAtStart[RoundTripAsg]

\* C35 amended: after that round trip the MinSize of the ASG is the larger of
\* N and m - N (so it is m exactly when m = N), and the MaxSize is unchanged.
C35_RoundTripMinSize ==
  RoundTripDone =>
    LET m == minSizeAtStart[RoundTripAsg]
        n == Len(group.Instances)
    IN /\ asgMinSize[RoundTripAsg] = (IF m - n > n THEN m - n ELSE n)
       /\ (asgMinSize[RoundTripAsg] = m) = (m = n)

\* a round trip of several instances that began with a positive MinSize and
\* ended with another one
C35_Witness ==
  /\ RoundTripDone
  /\ Len(group.Instances) >= 2
  /\ minSizeAtStart[RoundTripAsg] > 0
  /\ asgMinSize[RoundTripAsg] # minSizeAtStart[RoundTripAsg]

\* C34: PrepareInstanceGroupForStartup never lowers the MinSize of an ASG,
\* also when somebody else changes the ASG during the in-service wait: the
\* value of its final MinSize update is not less than the MinSize the ASG has
\* at the moment of the update.
C34_StartupNeverLowersMinSize ==
  [][ (command = "startup" /\ Issues("UpdateAutoScalingGroup.MinSize")) =>
        NewCall.val >= asgMinSize[NewCall.asg] ]_vars

\* the kind of outcome of a wait that returned r
OutcomeKind(r) ==
  IF r.err = Nil THEN "success"
  ELSE IF r.err \in {"exceeded max wait time for AutoScalingInstanceStandby waiter",
                     "exceeded max wait time for AutoScalingInstanceInService waiter"}
  THEN "timeout"
  ELSE r.err

\* both waits have taken the same number of steps
InStep == twin.turn = "first" /\ Frame = twin.before

\* C31: the Standby waiter and the InService waiter, run side by side with
\* the same arguments and options, the same outcomes of the describe calls
\* (Standby and InService swapped), the same latencies, delays and
\* cancellation, stand at the same place of the loop after every step, with
\* the same number of probes and sleeps, the same attempt and remaining time,
\* and they end with the same kind of outcome and mirrored outputs.
C31_SameStateMachine ==
  InStep =>
    LET o == twin.other IN
    /\ o.wkind = OtherWaiter(wkind)
    /\ o.wpc = wpc
    /\ o.probes = probes /\ o.sleeps = sleeps
    /\ o.attempt = attempt /\ o.remainingTime = remainingTime
    /\ o.options = options
    /\ o.ctxCancelled = ctxCancelled
    /\ o.lifecycle = Mirror(lifecycle)
    /\ OutcomeKind(o.wout) = OutcomeKind(wout)
    /\ o.wout.out = Mirror(wout.out)

\* both waits slept, probed again and succeeded
C31_Witness ==
  /\ InStep /\ wpc = "done" /\ twin.other.wpc = "done"
  /\ probes >= 2 /\ sleeps >= 1
  /\ wout.err = Nil /\ twin.other.wout.err = Nil
  /\ wout.out # <<>> /\ wout.out # twin.other.wout.out

====
